---- MODULE Spec2Model ----
(***************************************************************************)
(* Development SDK emulation layer of bizarre-ball-toss (src/.remix).      *)
(*                                                                         *)
(* Two state machines share this module, in three specifications:         *)
(*   SpecFacade   - one FarcadeSDKMock instance (the client-side Facade):  *)
(*                  ready(), on(), off(), the message listener and the      *)
(*                  queued 'ready' replays.                                 *)
(*   SpecHost     - one RemixDevHostController (the Host) with the browser *)
(*                  storage it persists to, the client windows that send it *)
(*                  messages and the timers it schedules.                   *)
(*   SpecHostDeep - the same Host followed through one more operation, with *)
(*                  fewer kinds of input.                                   *)
(* and three specifications apply functions of the layer to bounded       *)
(* families of inputs:                                                     *)
(*   SpecHints    - readInstanceHints (index.tsx 222-282);                 *)
(*   SpecCodec    - normalizeGameState (GameStatePanel.tsx 17-41);         *)
(*   SpecStore    - SafeLocalStorage (safeLocalStorage.ts 6-192).          *)
(***************************************************************************)
EXTENDS Integers, Sequences, FiniteSets, TLC

VARIABLES
  \* ---- FarcadeSDKMock (index.tsx 321-521) ----
  eventListeners,       \* Map<string, Set<callback>>
  readyPromiseResolve,  \* TRUE iff the resolve function is held (non-null)
  hasHostReady,
  readyPromise,         \* 0 = null, else the identity of the promise object
  readySent,
  promises,             \* promise identity -> "pending" or the value it resolved with
  microtasks,           \* queued 'ready' replays (queueMicrotask), FIFO
  readyCalls,           \* number of ready() calls made so far
  readyPosted,          \* number of 'ready' game_events posted to the target window
  fLast,                \* what the last Facade step did
  \* ---- RemixDevHostController (index.tsx 527-924) and its environment ----
  isMultiplayer,
  state,                \* this.state, the in-memory StoredState
  clientWindows,        \* Map<clientId, Window>
  windowToClientId,     \* Map<Window, clientId>
  handledReadyClients,  \* Set<clientId>
  cachedGameName,       \* TRUE once a package.json fetch has completed
  storedState,          \* storage value under the game-state key (JSON text, parsed form)
  storedAssignments,    \* storage value under PLAYER_ASSIGNMENTS_KEY
  storedBroadcast,      \* storage value under BROADCAST_STORAGE_KEY
  pending,              \* handlers suspended on a package.json fetch
  replyTimers,          \* setTimeout(50) callbacks of handleReady, FIFO
  muteTimers,           \* setTimeout callbacks of the demonstration mute cycle
  winClientId,          \* window -> its __remixDevClientId property
  winHints,             \* window -> the playerId/playerName readInstanceHints finds for it
  throwingWindows,      \* the windows whose postMessage throws
  nextEnvelopeId,       \* source of generateEnvelopeId()
  nextClientId,         \* source of minted client ids
  epoch,                \* number of resetState calls that have cleared the bookkeeping
  gameInfoSent,         \* game_info messages posted so far (reply history)
  hist,                 \* history facts about the run (see InitHist)
  hLast,                \* what the last Host step did, and the messages it emitted
  \* ---- calls of the pure functions (readInstanceHints, normalizeGameState) ----
  fnArg,                \* the argument of the call
  fnRes,                \* the values returned so far, oldest first
  \* ---- SafeLocalStorage (safeLocalStorage.ts 6-192) and window.localStorage ----
  isAvailable,          \* the cached availability: "null", "true" or "false"
  lsPresent,            \* TRUE iff window and window.localStorage exist
  lsItems,              \* key -> the stored text, or null when there is none
  lsAccess              \* what the last call did with window.localStorage

facadeVars == <<eventListeners, readyPromiseResolve, hasHostReady, readyPromise,
                readySent, promises, microtasks, readyCalls, readyPosted, fLast>>

hostVars == <<isMultiplayer, state, clientWindows, windowToClientId,
              handledReadyClients, cachedGameName, storedState, storedAssignments,
              storedBroadcast, pending, replyTimers, muteTimers, winClientId,
              winHints, throwingWindows, nextEnvelopeId, nextClientId, epoch,
              gameInfoSent, hist, hLast>>

fnVars == <<fnArg, fnRes>>

storeVars == <<isAvailable, lsPresent, lsItems, lsAccess>>

vars == <<facadeVars, hostVars, fnVars, storeVars>>

-----------------------------------------------------------------------------
(* Bounds *)

MaxReadyCalls == 3      \* ready() calls on the Facade
MaxMicrotasks == 2      \* 'ready' replays queued at once
MaxOps == 2             \* operations of the Host's environment, all inputs (SpecHost)
MaxDeepOps == 3         \* operations of the Host's environment, plain inputs (SpecHostDeep)
MaxApply == 2           \* successive applications of normalizeGameState (SpecCodec)
MaxEnsureCalls == 3     \* calls of ensureDevHost in one window (SpecEnsure)

-----------------------------------------------------------------------------
(* Values shared by both machines *)

Undefined == "<undefined>"

\* No pure function is being called
NoCall == [kind |-> "no call"]

StoreKeys == {"remix-key"}

\* SafeLocalStorage has not been called: nothing cached, nothing stored
StoreUnused ==
  /\ isAvailable = "null"
  /\ lsPresent = TRUE
  /\ lsItems = [k \in StoreKeys |-> "null"]
  /\ lsAccess = {}

NoPureCall == fnArg = NoCall /\ fnRes = <<>> /\ StoreUnused

\* ===========================================================================
\*                              FarcadeSDKMock
\* ===========================================================================

Callbacks == {"cb1", "cb2"}
ListenerTypes == {"ready", "game_info", "game_state_updated"}

\* Payloads that can arrive in the Facade's window as message events.
\* isObject = FALSE stands for null and primitive payloads; marked is
\* payload.__fromRemixDevHost === true.
InboundMessages ==
  [isObject : BOOLEAN, marked : BOOLEAN,
   type : {"game_event", "remix_sdk_event"},
   evType : ListenerTypes, data : {"d1", "d2"}]
  \cup \* the other traffic of the dev overlay, with an event field all the same
  [isObject : {TRUE}, marked : {FALSE},
   type : {"multiplayer_game_state_broadcast", "__remix_dev_host_request__",
           "__remix_dev_host_ready__", "__remix_dev_host_command__"},
   evType : {"ready", "game_info"}, data : {"d1"}]

\* msg: no message yet
IdleF == [op |-> "init",
          msg |-> [isObject |-> FALSE, marked |-> FALSE, type |-> "none",
                   evType |-> "none", data |-> Undefined],
          eventType |-> "none", cb |-> "none",
          returned |-> 0, resolved |-> FALSE, invoked |-> {}]

InitFacade ==
  /\ eventListeners = [t \in ListenerTypes |-> {}]
  /\ readyPromiseResolve = FALSE
  /\ hasHostReady = FALSE
  /\ readyPromise = 0
  /\ readySent = FALSE
  /\ promises = <<>>
  /\ microtasks = <<>>
  /\ readyCalls = 0
  /\ readyPosted = 0
  /\ fLast = IdleF

\* An on() that replays nothing, for comparison
ReplaysReadyNever(t) == FALSE

\* line 349: does on() queue a replay of the cached ready signal?
ReplaysReady(t) == t = "ready" /\ hasHostReady

\* on(eventType, callback)
FacadeOn(t, cb) ==
  /\ UNCHANGED <<hostVars, fnVars, storeVars>>
  /\ ReplaysReady(t) => Len(microtasks) < MaxMicrotasks
  /\ eventListeners' = [eventListeners EXCEPT ![t] = @ \cup {cb}]
  /\ microtasks' = IF ReplaysReady(t) THEN Append(microtasks, cb) ELSE microtasks
  /\ fLast' = [IdleF EXCEPT !.op = "on", !.eventType = t, !.cb = cb]
  /\ UNCHANGED <<readyPromiseResolve, hasHostReady, readyPromise, readySent,
                 promises, readyCalls, readyPosted>>

\* off(eventType, callback)
FacadeOff(t, cb) ==
  /\ UNCHANGED <<hostVars, fnVars, storeVars>>
  /\ eventListeners' = [eventListeners EXCEPT ![t] = @ \ {cb}]
  /\ fLast' = [IdleF EXCEPT !.op = "off", !.eventType = t, !.cb = cb]
  /\ UNCHANGED <<readyPromiseResolve, hasHostReady, readyPromise, readySent,
                 promises, microtasks, readyCalls, readyPosted>>

\* A ready() that never finds its promise, for comparison
ReadyReusesPromiseNever == FALSE

\* The guard of ready(): an existing promise is returned as it is.
ReadyReusesPromise == readyPromise /= 0

\* ready(), reached through singlePlayer.actions.ready or multiplayer.actions.ready
FacadeReady ==
  /\ UNCHANGED <<hostVars, fnVars, storeVars>>
  /\ readyCalls < MaxReadyCalls
  /\ readyCalls' = readyCalls + 1
  /\ IF ReadyReusesPromise
       THEN /\ fLast' = [IdleF EXCEPT !.op = "ready", !.returned = readyPromise]
            /\ UNCHANGED <<readyPromise, readyPromiseResolve, promises,
                           readySent, readyPosted>>
       ELSE /\ promises' = Append(promises, "pending")
            /\ readyPromise' = Len(promises) + 1
            /\ readyPromiseResolve' = TRUE
            /\ readySent' = TRUE
            /\ readyPosted' = IF readySent THEN readyPosted ELSE readyPosted + 1
            /\ fLast' = [IdleF EXCEPT !.op = "ready", !.returned = Len(promises) + 1]
  /\ UNCHANGED <<eventListeners, hasHostReady, microtasks>>

\* A filter that lets every object payload through, for comparison
HandleMessageAcceptsAny(m) == m.isObject

\* The filter of handleMessage: which payloads reach emit().
HandleMessageAccepts(m) == m.isObject /\ m.type = "game_event"

\* handleMessage(event) followed by emit(payload.event.type, payload.event.data)
FacadeDeliver(m) ==
  /\ UNCHANGED <<hostVars, fnVars, storeVars>>
  /\ microtasks = <<>>      \* microtasks run before the next message event
  /\ IF ~HandleMessageAccepts(m)
       THEN /\ fLast' = [IdleF EXCEPT !.op = "message", !.msg = m]
            /\ UNCHANGED <<hasHostReady, promises, readyPromiseResolve>>
       ELSE /\ hasHostReady' = (hasHostReady \/ m.evType = "ready")
            \* emit(): a game_info goes to the promise instead of the listeners
            /\ IF m.evType = "game_info" /\ readyPromiseResolve
                 THEN /\ promises' = [promises EXCEPT ![readyPromise] =
                                        IF @ = "pending" THEN m.data ELSE @]
                      /\ readyPromiseResolve' = FALSE
                      /\ fLast' = [IdleF EXCEPT !.op = "message", !.msg = m,
                                     !.resolved = (promises[readyPromise] = "pending")]
                 ELSE /\ fLast' = [IdleF EXCEPT !.op = "message", !.msg = m,
                                     !.invoked = {<<cb, m.evType, m.data>> :
                                                    cb \in eventListeners[m.evType]}]
                      /\ UNCHANGED <<promises, readyPromiseResolve>>
  /\ UNCHANGED <<eventListeners, readyPromise, readySent, microtasks,
                 readyCalls, readyPosted>>

\* A queued 'ready' replay runs: callback(undefined)
FacadeMicrotask ==
  /\ UNCHANGED <<hostVars, fnVars, storeVars>>
  /\ microtasks /= <<>>
  /\ microtasks' = Tail(microtasks)
  /\ fLast' = [IdleF EXCEPT !.op = "replay", !.eventType = "ready",
                 !.cb = Head(microtasks),
                 !.invoked = {<<Head(microtasks), "ready", Undefined>>}]
  /\ UNCHANGED <<eventListeners, readyPromiseResolve, hasHostReady, readyPromise,
                 readySent, promises, readyCalls, readyPosted>>

NextFacade ==
  \/ \E t \in ListenerTypes, cb \in Callbacks : FacadeOn(t, cb)
  \/ \E t \in ListenerTypes, cb \in Callbacks : FacadeOff(t, cb)
  \/ FacadeReady
  \/ \E m \in InboundMessages : FacadeDeliver(m)
  \/ FacadeMicrotask

\* ===========================================================================
\*                 RemixDevHostController and its environment
\* ===========================================================================

(* ---- values ---- *)

NullId == "<null>"              \* currentPlayerId: null
NoWindow == "<no window>"       \* event.source === null
HostWindow == "wH"              \* the window the Host runs in
Windows == {"wA", "wB", "wC"}   \* client windows (iframes, or the game's own window)

\* Client ids minted by getClientInstanceId / registerClientWindow, in minting order.
MintedIds == <<"m1", "m2", "m3", "m4", "m5", "m6">>

InitialClientId ==
  [w \in Windows \cup {HostWindow} |->
     CASE w = "wA" -> "cA" [] w = "wB" -> "cB" [] w = "wC" -> "cC" [] OTHER -> "cH"]

\* An optional value: <<>> is undefined, <<v>> is the value v.
None == <<>>
Some(v) == <<v>>

Player(id, name) == [id |-> id, name |-> name]

DEFAULT_PLAYERS == <<Player("1", "Player 1"), Player("2", "Player 2")>>

NullEnvelope == [null |-> TRUE]   \* a null gameState / initialGameState

\* createDefaultState()
createDefaultState ==
  [gameState |-> NullEnvelope, players |-> DEFAULT_PLAYERS, currentPlayerId |-> NullId]

\* The game-specific payload of a save, reduced to the fields the Host sniffs:
\* currentPlayer (a number, when present), turn (a string, when present) and
\* players (an array; "" stands for a missing or falsy id / name).
GamePayload(cp, turn, roster) == [currentPlayer |-> cp, turn |-> turn, players |-> roster]

PayloadCp1 == GamePayload(Some(1), None, <<>>)

\* The data of a save message. isObject = FALSE: data is undefined;
\* hasGameState = FALSE: data.gameState is null or undefined.
SaveData(isObj, hasGs, gs, alert) ==
  [isObject |-> isObj, hasGameState |-> hasGs, gameState |-> gs, alertUserIds |-> alert]

\* data is undefined; also the data recorded for steps that are not saves
NoSaveData == SaveData(FALSE, FALSE, PayloadCp1, None)
SaveCp2 == SaveData(TRUE, TRUE, GamePayload(Some(2), None, <<>>), None)

\* The save messages the clients send: <<event type, data>>
SaveInputs ==
  { <<"save_game_state", NoSaveData>>,
    \* data without a gameState
    <<"multiplayer_save_game_state", SaveData(TRUE, FALSE, PayloadCp1, None)>>,
    <<"multiplayer_save_game_state", SaveCp2>>,
    \* a turn field and alertUserIds
    <<"save_game_state",
      SaveData(TRUE, TRUE, GamePayload(None, Some("w"), <<>>), Some(<<"2">>))>>,
    \* a roster of three with two blank entries
    <<"multiplayer_save_game_state",
      SaveData(TRUE, TRUE,
               GamePayload(None, None,
                           <<Player("", ""), Player("7", "Ann"), Player("", "")>>),
               None)>>,
    \* a zero-based player index
    <<"multiplayer_save_game_state",
      SaveData(TRUE, TRUE, GamePayload(Some(0), None, <<>>), None)>> }

Hint(id, name) == [playerId |-> id, playerName |-> name]
NoHint == Hint("", "")

\* What readInstanceHints finds for each window ("" = the field is not set).
HintConfigs ==
  { [w \in Windows \cup {HostWindow} |-> NoHint],
    [w \in Windows \cup {HostWindow} |->
       CASE w = "wA" -> Hint("2", "") [] w = "wB" -> Hint("3", "Zed")
         [] w = "wC" -> Hint("", "Zed") [] OTHER -> Hint("1", "Zed")] }

(* ---- maps ---- *)

EmptyMap == [k \in {} |-> ""]
Put(f, k, v) == [x \in (DOMAIN f) \cup {k} |-> IF x = k THEN v ELSE f[x]]
Values(f) == {f[k] : k \in DOMAIN f}

RECURSIVE SetToSeq(_)
SetToSeq(S) == IF S = {} THEN <<>>
               ELSE LET x == CHOOSE y \in S : TRUE IN <<x>> \o SetToSeq(S \ {x})

RemoveAt(s, i) == SubSeq(s, 1, i - 1) \o SubSeq(s, i + 1, Len(s))

\* Array.prototype.findIndex: 0 stands for -1
FindIndex(players, id) ==
  IF \E i \in 1..Len(players) : players[i].id = id
    THEN CHOOSE i \in 1..Len(players) :
           players[i].id = id /\ \A j \in 1..(i - 1) : players[j].id /= id
    ELSE 0

NumStr(n) == CASE n = 0 -> "0" [] n = 1 -> "1" [] n = 2 -> "2" [] n = 3 -> "3"
               [] n = 4 -> "4" [] OTHER -> "5"

(* ---- storage ---- *)

NoItem == [present |-> FALSE, value |-> ""]
Item(v) == [present |-> TRUE, value |-> v]

\* safeLocalStorage().setItem(key, JSON.stringify(v)): the new storage value;
\* nothing is stored (setItem returns false) when the storage is unavailable
StorageSet(v) == IF lsPresent THEN Item(v) ELSE NoItem

\* JSON.stringify(state) as persistState writes it; a null currentPlayerId and a
\* null gameState stay null, an undefined alertUserIds is dropped (None).
StringifyState(s) ==
  [gameState |-> s.gameState, players |-> s.players, currentPlayerId |-> s.currentPlayerId]

\* A handler that trusts the state in memory instead of reading, for comparison
readPersistedStateStale(raw) == state

\* A read that falls back to the state in memory, for comparison
readPersistedStateOrMemory(raw) ==
  IF ~raw.present THEN state ELSE createDefaultState

\* readPersistedState(), after getGameName() has answered
readPersistedState(raw) ==
  IF ~raw.present
    THEN createDefaultState
    ELSE [gameState |-> raw.value.gameState,
          players |-> IF Len(raw.value.players) >= 2
                        THEN raw.value.players ELSE DEFAULT_PLAYERS,
          \* a stored number ("#n", written by the panel) is not a string
          currentPlayerId |-> IF raw.value.currentPlayerId \in {"#1", "#2"}
                                THEN NullId ELSE raw.value.currentPlayerId]

\* persistState(state), after getGameName() has answered: the new storage value
persistState(s) == StorageSet(StringifyState(s))

\* readPlayerAssignments()
readPlayerAssignments(raw) == IF raw.present THEN raw.value ELSE EmptyMap

\* writePlayerAssignments(assignments): the new storage value
writePlayerAssignments(a) == StorageSet(a)

\* A state and an assignment table left in storage by an earlier session.
PriorState ==
  [gameState |-> [id |-> 0, gameState |-> PayloadCp1, alertUserIds |-> None],
   players |-> <<Player("1", "Ann"), Player("2", "Player 2")>>,
   currentPlayerId |-> "1"]


(* ---- messages the Host emits ---- *)

\* postToClient(targetWindow, {__fromRemixDevHost: true, type: 'game_event', event})
ClientMsg(to, type, data) == [ch |-> "client", to |-> to, type |-> type, data |-> data]
\* publishDevEvent(type, data): a remix_sdk_event posted to the Host's own window
DevEvent(type, data) == [ch |-> "dev", to |-> HostWindow, type |-> type, data |-> data]
\* window.postMessage(...) of another payload to the Host's own window
WindowMsg(type, data) == [ch |-> "window", to |-> HostWindow, type |-> type, data |-> data]
\* storage.setItem(BROADCAST_STORAGE_KEY, ...)
BridgeMsg(type, data) == [ch |-> "bridge", to |-> "", type |-> type, data |-> data]

\* An exception that leaves the handler, as it would show among the messages
Thrown == [ch |-> "thrown", to |-> "", type |-> "", data |-> ""]

\* A postToClient without its try / catch, for comparison
postToClientUncaught(w, type, data) ==
  IF w \in throwingWindows THEN <<Thrown>> ELSE <<ClientMsg(w, type, data)>>

\* postToClient(targetWindow, payload): the message posted, none when
\* postMessage throws (the exception is caught and logged)
postToClient(w, type, data) ==
  IF w \in throwingWindows THEN <<>> ELSE <<ClientMsg(w, type, data)>>

\* the loop of sendGameEvent over the registered windows; an exception that
\* escaped postToClient would end it
RECURSIVE FanOut(_, _, _)
FanOut(ws, type, data) ==
  IF ws = <<>> THEN <<>>
  ELSE LET posted == postToClient(Head(ws), type, data)
       IN IF posted = <<Thrown>> THEN posted
          ELSE posted \o FanOut(Tail(ws), type, data)

\* sendGameEvent(type, data) without a target: every registered window, or the
\* Host's own window when none is registered. Map order is not observable
\* across windows, so the fan-out is listed in an arbitrary fixed order.
sendGameEvent(type, data, cw) ==
  IF DOMAIN cw = {}
    THEN postToClient(HostWindow, type, data)
    ELSE LET ids == SetToSeq(DOMAIN cw)
         IN FanOut([i \in 1..Len(ids) |-> cw[ids[i]]], type, data)

\* broadcastToOtherWindows(type, data): the envelope written to the broadcast key
\* (hostId is this Host's; the timestamp is left out)
broadcastToOtherWindows(type, data) ==
  StorageSet([senderId |-> "host", type |-> type, data |-> data])

(* ---- handleReady's decisions ---- *)


\* A resolution without the assignment table, for comparison
ResolvePlayerIdFirst(hint, cid, assignments, players) ==
  IF hint.playerId /= "" THEN hint.playerId ELSE "1"

\* lines 704-737: the resolved player id
ResolvePlayerId(hint, cid, assignments, players) ==
  IF hint.playerId /= "" THEN hint.playerId
  ELSE IF cid \in DOMAIN assignments /\ assignments[cid] /= "" THEN assignments[cid]
  ELSE IF ~isMultiplayer THEN "1"
  ELSE LET assignedIds == Values(assignments)
           avail == {i \in 1..Len(players) : players[i].id \notin assignedIds}
       IN IF avail /= {} THEN players[CHOOSE x \in avail : \A y \in avail : x <= y].id
          ELSE IF Len(players) >= 2 THEN "1"
          ELSE NumStr(Len(players) + 1)

\* lines 719-734: the branch that synthesizes a player appends it to the roster
SynthesizePlayer(hint, cid, assignments, players) ==
  IF /\ hint.playerId = ""
     /\ ~(cid \in DOMAIN assignments /\ assignments[cid] /= "")
     /\ isMultiplayer
     /\ \A i \in 1..Len(players) : players[i].id \in Values(assignments)
     /\ Len(players) < 2
    THEN Append(players, Player(NumStr(Len(players) + 1),
                                "Player " \o NumStr(Len(players) + 1)))
    ELSE players

\* lines 742-762: add the resolved player if it is missing, else rename it
UpsertPlayer(players, id, hint) ==
  LET existingIndex == FindIndex(players, id)
  IN IF existingIndex = 0
       THEN IF Len(players) < 2 \/ isMultiplayer
              THEN Append(players,
                          Player(id, IF hint.playerName /= "" THEN hint.playerName
                                     ELSE "Player " \o id))
              ELSE players
       ELSE IF hint.playerName /= "" /\ players[existingIndex].name /= hint.playerName
              THEN [players EXCEPT ![existingIndex].name = hint.playerName]
              ELSE players

\* No trimming, for comparison
TrimSinglePlayerNever(players) == players

\* lines 764-767: a single-player Host keeps the first player only
TrimSinglePlayer(players) ==
  IF ~isMultiplayer /\ Len(players) > 1 THEN <<players[1]>> ELSE players

\* line 778: the player named in GameInfo
GameInfoPlayer(players, resolvedPlayerId) ==
  IF FindIndex(players, resolvedPlayerId) /= 0
    THEN players[FindIndex(players, resolvedPlayerId)]
    ELSE players[1]

GameInfo(players, player, gs) ==
  [players |-> players, player |-> player, viewContext |-> "full_screen",
   initialGameState |-> gs]

\* A guard that lets every ready through, for comparison
AlreadyHandledNever(cid) == FALSE

\* line 690: the duplicate-ready guard
AlreadyHandled(cid) == cid \in handledReadyClients

\* A handled-ready set that is never filled, for comparison
MarkHandledForgets(handled, cid) == handled

\* line 696: mark the client as handled
MarkHandled(handled, cid) == handled \cup {cid}

(* ---- registerClientWindow ---- *)

\* String.prototype.trim on the strings used here: " " is a blank string,
\* " cA " the id cA with white space around it
Trim(str) == IF str = " " THEN "" ELSE IF str = " cA " THEN "cA" ELSE str

\* A registration that does not look the window up, for comparison
registerClientWindowAnew(w, explicit, cw, w2c) ==
  LET clientId == IF Trim(explicit) /= "" THEN Trim(explicit) ELSE MintedIds[nextClientId]
  IN [id |-> clientId, clientWindows |-> Put(cw, clientId, w),
      windowToClientId |-> Put(w2c, w, clientId),
      isNew |-> TRUE, isFirstClient |-> (DOMAIN cw = {}),
      minted |-> (Trim(explicit) = "")]

\* registerClientWindow(targetWindow, explicitClientId); explicit = "" stands
\* for an id that is undefined or empty
registerClientWindow(w, explicit, cw, w2c) ==
  IF w \in DOMAIN w2c
    THEN [id |-> w2c[w], clientWindows |-> Put(cw, w2c[w], w), windowToClientId |-> w2c,
          isNew |-> FALSE, isFirstClient |-> FALSE, minted |-> FALSE]
    ELSE LET clientId == IF Trim(explicit) /= "" THEN Trim(explicit)
                         ELSE MintedIds[nextClientId]
         IN [id |-> clientId, clientWindows |-> Put(cw, clientId, w),
             windowToClientId |-> Put(w2c, w, clientId),
             isNew |-> TRUE, isFirstClient |-> (DOMAIN cw = {}),
             minted |-> (Trim(explicit) = "")]

\* The messages and timers of a registration (lines 584-597)
RegistrationEvents(r) ==
  IF r.isNew THEN <<DevEvent("client_registered", r.id)>> ELSE <<>>

RegistrationTimers(r) == IF r.isFirstClient THEN <<"mute">> ELSE <<>>

(* ---- handleSaveGameState's decisions ---- *)

\* lines 816-822: the envelope built for the save
SaveEnvelope(data, id) ==
  IF data.hasGameState
    THEN [id |-> id, gameState |-> data.gameState, alertUserIds |-> data.alertUserIds]
    ELSE NullEnvelope

\* lines 826-832: the roster re-derived from the payload
SaveRoster(data, players) ==
  IF data.hasGameState /\ Len(data.gameState.players) >= 2
    THEN [i \in 1..Len(data.gameState.players) |->
            Player(IF data.gameState.players[i].id /= ""
                     THEN data.gameState.players[i].id ELSE NumStr(i),
                   IF data.gameState.players[i].name /= ""
                     THEN data.gameState.players[i].name ELSE "Player " \o NumStr(i))]
    ELSE players

\* A save that leaves the turn alone, for comparison
SaveCurrentPlayerIdKeeps(data, current) == current

\* lines 834-838: whose turn it is
SaveCurrentPlayerId(data, current) ==
  IF data.hasGameState /\ data.gameState.currentPlayer /= None
    THEN NumStr(data.gameState.currentPlayer[1])
  ELSE IF data.hasGameState /\ data.gameState.turn /= None
    THEN IF data.gameState.turn[1] = "w" THEN "1" ELSE "2"
  ELSE current

(* ---- bookkeeping of the run ---- *)

\* A handler suspended at `await getGameName()` while no package.json fetch has
\* completed yet. live: the state object it will persist is still this.state;
\* otherwise snap is that object, which nothing can reach any more.
PendingRec(kind, src, cid, hint, live, env, data) ==
  [kind |-> kind, src |-> src, cid |-> cid, hint |-> hint, live |-> live,
   snap |-> createDefaultState, env |-> env, data |-> data, epoch |-> epoch]

LoadRec == [kind |-> "load", src |-> NoWindow, cid |-> "", hint |-> NoHint,
            live |-> FALSE, snap |-> createDefaultState, env |-> NullEnvelope,
            data |-> NoSaveData, epoch |-> 0]

\* this.state is replaced by a new object: suspended handlers keep the old one.
Orphan(pend) ==
  [i \in 1..Len(pend) |->
     IF pend[i].live THEN [pend[i] EXCEPT !.live = FALSE, !.snap = state] ELSE pend[i]]


Last(op, src, cid, out) ==
  [op |-> op, src |-> src, cid |-> cid, out |-> out, resolved |-> "",
   info |-> [null |-> TRUE], readEmpty |-> FALSE]

\* The end-to-end scenario of spec section 8, followed step by step: A's
\* handshake, its reply, A's save of currentPlayer 2, B's handshake, its reply.
\* Timers of the mute cycle, the initial load and host requests do not leave it.
ScenNext(scen, ev, src, data) ==
  CASE ev = "internal" -> scen
    [] ev = "readyPend" ->
         IF scen = "s0" /\ src = "wA" THEN "A_pend"
         ELSE IF scen = "S_done" /\ src = "wB" THEN "B_pend" ELSE "off"
    [] ev = "readyDone" ->
         IF scen \in {"s0", "A_pend"} /\ src = "wA" THEN "A_done"
         ELSE IF scen \in {"S_done", "B_pend"} /\ src = "wB" THEN "B_done" ELSE "off"
    [] ev = "reply" ->
         IF scen = "A_done" THEN "A_replied"
         ELSE IF scen = "B_done" THEN "B_replied" ELSE "off"
    [] ev = "savePend" ->
         IF scen = "A_replied" /\ data = SaveCp2 THEN "S_pend" ELSE "off"
    [] ev = "saveDone" ->
         IF scen \in {"A_replied", "S_pend"} /\ data = SaveCp2 THEN "S_done" ELSE "off"
    [] OTHER -> "off"

\* One more operation of the environment is counted.
Counted(h) == [h EXCEPT !.ops = @ + 1]

HistStepOn(h, ev, src, data) ==
  [h EXCEPT !.scen = ScenNext(h.scen, ev, src, data),
            !.onlyReadys = h.onlyReadys /\
                           ev \in {"internal", "readyPend", "readyDone", "reply", "readyDup"}]

HistStep(ev, src, data) == HistStepOn(hist, ev, src, data)

(* ---- Init ---- *)

InitHost ==
  /\ isMultiplayer \in BOOLEAN
  /\ winHints \in HintConfigs
  /\ state = createDefaultState
  /\ clientWindows = EmptyMap
  /\ windowToClientId = EmptyMap
  /\ handledReadyClients = {}
  /\ cachedGameName = FALSE
  /\ \E prior \in BOOLEAN :
       /\ storedState = IF prior THEN Item(StringifyState(PriorState)) ELSE NoItem
       /\ storedAssignments = IF prior THEN Item(Put(EmptyMap, "cA", "2")) ELSE NoItem
       /\ hist = [emptyAtInit |-> ~prior, onlyReadys |-> TRUE, assigned |-> <<>>,
                  scen |-> "s0", ops |-> 0]
  /\ storedBroadcast = NoItem
  /\ pending = <<LoadRec>>       \* the constructor's readPersistedState().then(...)
  /\ replyTimers = <<>>
  /\ muteTimers = <<>>
  /\ winClientId = InitialClientId
  /\ nextEnvelopeId = 1
  /\ nextClientId = 1
  /\ epoch = 0
  /\ gameInfoSent = EmptyMap
  /\ hLast = Last("constructor", NoWindow, "", <<DevEvent("host_initialized", "host")>>)

\* What no handler of the Host writes: the mode is readonly, the hints and the
\* client id belong to the windows, the Facade is another object.
HostFrame ==
  UNCHANGED <<isMultiplayer, winHints, winClientId, throwingWindows, facadeVars,
              fnVars, storeVars>>

(* ---- handleReady ---- *)

ContextWindow(src) == IF src = NoWindow THEN HostWindow ELSE src

\* lines 771-776: the registration made by handleReady
ReadyRegistration(src, cid) ==
  IF src /= NoWindow
    THEN registerClientWindow(src, cid, clientWindows, windowToClientId)
    ELSE [id |-> cid,
          clientWindows |-> IF cid \in DOMAIN clientWindows THEN clientWindows
                            ELSE Put(clientWindows, cid, HostWindow),
          windowToClientId |-> windowToClientId,
          isNew |-> FALSE, isFirstClient |-> FALSE, minted |-> FALSE]

\* handleReady from line 700 on (after readPersistedState's fetch has answered)
\* up to the scheduling of the reply; rest is what stays suspended.
ReadyBody(p, rest, h) ==
  LET st0 == readPersistedState(storedState)
      assignments == readPlayerAssignments(storedAssignments)
      resolvedPlayerId == ResolvePlayerId(p.hint, p.cid, assignments, st0.players)
      players1 == SynthesizePlayer(p.hint, p.cid, assignments, st0.players)
      players2 == UpsertPlayer(players1, resolvedPlayerId, p.hint)
      players3 == TrimSinglePlayer(players2)
      st1 == [st0 EXCEPT !.players = players3]
      reg == ReadyRegistration(p.src, p.cid)
      player == GameInfoPlayer(players3, resolvedPlayerId)
      gameInfo == GameInfo(players3, player, st1.gameState)
  IN /\ state' = st1
     /\ storedAssignments' = writePlayerAssignments(Put(assignments, p.cid, resolvedPlayerId))
     /\ storedState' = persistState(st1)
     /\ clientWindows' = reg.clientWindows
     /\ windowToClientId' = reg.windowToClientId
     /\ muteTimers' = muteTimers \o RegistrationTimers(reg)
     /\ replyTimers' = Append(replyTimers,
                              [to |-> reg.id, info |-> gameInfo, forCid |-> p.cid,
                               epoch |-> p.epoch, readEmpty |-> ~storedState.present])
     /\ pending' = Orphan(rest)
     /\ cachedGameName' = TRUE
     /\ hist' = [HistStepOn(h, "readyDone", p.src, NoSaveData) EXCEPT
                   !.assigned = IF Len(@) < 3
                                  THEN Append(@, <<p.cid, resolvedPlayerId>>) ELSE @]
     /\ hLast' = [Last("ready", p.src, p.cid,
                       RegistrationEvents(reg) \o
                       <<DevEvent("game_info_assigned",
                                  [clientId |-> reg.id, playerId |-> resolvedPlayerId,
                                   playerName |-> player.name])>>)
                    EXCEPT !.resolved = resolvedPlayerId, !.info = gameInfo,
                           !.readEmpty = ~storedState.present]
     /\ UNCHANGED <<storedBroadcast, nextEnvelopeId, nextClientId, epoch, gameInfoSent>>

\* A 'ready' game_event arrives from window src (NoWindow: event.source is null)
Ready(src, max) ==
  LET cid == winClientId[ContextWindow(src)]
      hint == winHints[ContextWindow(src)]
      p == PendingRec("ready", src, cid, hint, FALSE, NullEnvelope, NoSaveData)
  IN /\ hist.ops < max
     /\ HostFrame
     /\ IF AlreadyHandled(cid)
       THEN /\ hLast' = Last("readyDup", src, cid, <<>>)
            /\ hist' = Counted(HistStep("readyDup", src, NoSaveData))
            /\ UNCHANGED <<state, clientWindows, windowToClientId, handledReadyClients,
                           cachedGameName, storedState, storedAssignments,
                           storedBroadcast, pending, replyTimers, muteTimers,
                           nextEnvelopeId, nextClientId, epoch, gameInfoSent>>
       ELSE /\ handledReadyClients' = MarkHandled(handledReadyClients, cid)
            /\ IF cachedGameName
                 THEN ReadyBody(p, pending, Counted(hist))
                 ELSE /\ pending' = Append(pending, p)
                      /\ hist' = Counted(HistStep("readyPend", src, NoSaveData))
                      /\ hLast' = Last("readyStart", src, cid, <<>>)
                      /\ UNCHANGED <<state, clientWindows, windowToClientId,
                                     cachedGameName, storedState, storedAssignments,
                                     storedBroadcast, replyTimers, muteTimers,
                                     nextEnvelopeId, nextClientId, epoch, gameInfoSent>>

\* The reply scheduled by handleReady fires (lines 796-799)
ReplyTimer ==
  /\ replyTimers /= <<>>
  /\ HostFrame
  /\ LET t == Head(replyTimers)
         \* sendGameEvent('game_info', gameInfo, clientId), lines 875-881
         posted == IF t.to \in DOMAIN clientWindows
                     THEN postToClient(clientWindows[t.to], "game_info", t.info)
                     ELSE <<>>
         key == <<t.epoch, t.forCid>>
     IN /\ replyTimers' = Tail(replyTimers)
        /\ gameInfoSent' =
             IF posted = <<>> THEN gameInfoSent
             ELSE Put(gameInfoSent, key,
                      IF key \in DOMAIN gameInfoSent THEN gameInfoSent[key] + 1 ELSE 1)
        /\ hLast' = [Last("replyTimer", NoWindow, t.forCid,
                          posted \o <<DevEvent("game_info", t.info)>>)
                       EXCEPT !.info = t.info, !.readEmpty = t.readEmpty]
        /\ hist' = HistStep("reply", NoWindow, NoSaveData)
  /\ UNCHANGED <<state, clientWindows, windowToClientId, handledReadyClients,
                 cachedGameName, storedState, storedAssignments, storedBroadcast,
                 pending, muteTimers, nextEnvelopeId, nextClientId, epoch>>

(* ---- handleSaveGameState ---- *)

\* lines 617-640: what handleIncomingMessage posts after calling handleSaveGameState
\* (it runs before the handler's continuation); id is a fresh generateEnvelopeId()
SaveCaseMessages(kind, data, id) ==
  LET bc == IF data.isObject /\ data.hasGameState
              THEN [id |-> id, gameState |-> data.gameState] ELSE NullEnvelope
  IN IF kind = "save_game_state"
       THEN <<DevEvent("single_player_save_game_state", data),
              WindowMsg("single_player_game_state_broadcast", bc)>>
       ELSE <<WindowMsg("multiplayer_game_state_broadcast", bc)>>

\* lines 824-838: this.state after the synchronous part of handleSaveGameState
SaveMutation(st, data, envelope) ==
  [gameState |-> envelope,
   players |-> SaveRoster(data, st.players),
   currentPlayerId |-> SaveCurrentPlayerId(data, st.currentPlayerId)]

\* lines 842-844: the fan-out of a save
SaveFanOut(envelope, cw) ==
  sendGameEvent("game_state_updated", envelope, cw)
    \o <<DevEvent("game_state_updated", envelope)>>
    \o (IF lsPresent THEN <<BridgeMsg("game_state_updated", envelope)>> ELSE <<>>)

\* lines 840-844, after persistState's getGameName() has answered; obj is the
\* state object handed to persistState, pre what was emitted before in this step
SaveBody(obj, envelope, data, pre, rest, h) ==
  /\ storedState' = persistState(obj)
  /\ storedBroadcast' = broadcastToOtherWindows("game_state_updated", envelope)
  /\ pending' = rest
  /\ cachedGameName' = TRUE
  /\ hist' = HistStepOn(h, "saveDone", NoWindow, data)
  /\ hLast' = Last("save", NoWindow, "", pre \o SaveFanOut(envelope, clientWindows))
  /\ UNCHANGED <<clientWindows, windowToClientId, handledReadyClients,
                 storedAssignments, replyTimers, muteTimers, nextClientId, epoch,
                 gameInfoSent>>

\* A save_game_state / multiplayer_save_game_state game_event arrives
Save(kind, data, max) ==
  /\ hist.ops < max
  /\ HostFrame
  /\ IF ~data.isObject
       THEN \* handleSaveGameState returns at line 814
            /\ hLast' = Last("saveIgnored", NoWindow, "",
                             SaveCaseMessages(kind, data, nextEnvelopeId))
            /\ hist' = Counted(HistStep("saveIgnored", NoWindow, data))
            /\ UNCHANGED <<state, clientWindows, windowToClientId, handledReadyClients,
                           cachedGameName, storedState, storedAssignments,
                           storedBroadcast, pending, replyTimers, muteTimers,
                           nextEnvelopeId, nextClientId, epoch, gameInfoSent>>
       ELSE LET n1 == IF data.hasGameState THEN nextEnvelopeId + 1 ELSE nextEnvelopeId
                envelope == SaveEnvelope(data, nextEnvelopeId)
                st1 == SaveMutation(state, data, envelope)
                pre == SaveCaseMessages(kind, data, n1)
            IN /\ state' = st1
               /\ nextEnvelopeId' = IF data.hasGameState THEN n1 + 1 ELSE n1
               /\ IF cachedGameName
                    THEN SaveBody(st1, envelope, data, pre, pending,
                                  Counted(hist))
                    ELSE /\ pending' = Append(pending,
                              PendingRec("save", NoWindow, "", NoHint, TRUE, envelope, data))
                         /\ hist' = Counted(HistStep("savePend", NoWindow, data))
                         /\ hLast' = Last("saveStart", NoWindow, "", pre)
                         /\ UNCHANGED <<clientWindows, windowToClientId,
                                        handledReadyClients, cachedGameName, storedState,
                                        storedAssignments, storedBroadcast, replyTimers,
                                        muteTimers, nextClientId, epoch, gameInfoSent>>

(* ---- handleMultiplayerGameOver ---- *)

GameOverData == "scores"

\* lines 850-855, after persistState's getGameName() has answered
GameOverBody(obj, rest, h) ==
  /\ storedState' = persistState(obj)
  /\ storedBroadcast' = broadcastToOtherWindows("multiplayer_game_over", GameOverData)
  /\ storedAssignments' = NoItem        \* clearPlayerAssignments()
  /\ pending' = rest
  /\ cachedGameName' = TRUE
  /\ hist' = HistStepOn(h, "gameOverDone", NoWindow, NoSaveData)
  /\ hLast' = Last("gameOver", NoWindow, "",
                   sendGameEvent("multiplayer_game_over", GameOverData, clientWindows)
                     \o <<DevEvent("multiplayer_game_over", GameOverData)>>
                     \o (IF lsPresent
                           THEN <<BridgeMsg("multiplayer_game_over", GameOverData)>>
                           ELSE <<>>))
  /\ UNCHANGED <<clientWindows, windowToClientId, handledReadyClients, replyTimers,
                 muteTimers, nextEnvelopeId, nextClientId, epoch, gameInfoSent>>

\* A multiplayer_game_over game_event arrives
GameOver(max) ==
  LET st1 == [state EXCEPT !.gameState = NullEnvelope, !.currentPlayerId = NullId]
  IN /\ hist.ops < max
     /\ HostFrame
     /\ state' = st1
     /\ IF cachedGameName
          THEN GameOverBody(st1, pending, Counted(hist))
          ELSE /\ pending' = Append(pending,
                    PendingRec("gameOver", NoWindow, "", NoHint, TRUE, NullEnvelope, NoSaveData))
               /\ hist' = Counted(HistStep("gameOverPend", NoWindow, NoSaveData))
               /\ hLast' = Last("gameOverStart", NoWindow, "", <<>>)
               /\ UNCHANGED <<clientWindows, windowToClientId, handledReadyClients,
                              cachedGameName, storedState, storedAssignments,
                              storedBroadcast, replyTimers, muteTimers, nextEnvelopeId,
                              nextClientId, epoch, gameInfoSent>>

(* ---- resetState ---- *)

\* lines 860-865, after persistState's getGameName() has answered
ResetBody(obj, rest, h) ==
  /\ storedState' = persistState(obj)
  /\ storedAssignments' = NoItem        \* clearPlayerAssignments()
  /\ clientWindows' = EmptyMap
  /\ windowToClientId' = EmptyMap
  /\ handledReadyClients' = {}
  /\ epoch' = epoch + 1
  /\ pending' = rest
  /\ cachedGameName' = TRUE
  /\ hist' = HistStepOn(h, "resetDone", NoWindow, NoSaveData)
  /\ hLast' = Last("reset", NoWindow, "",
                   sendGameEvent("game_state_updated", NullEnvelope, EmptyMap))
  /\ UNCHANGED <<storedBroadcast, replyTimers, muteTimers, nextEnvelopeId,
                 nextClientId, gameInfoSent>>

\* resetState() is called (the reset_state command, or a panel)
Reset(max) ==
  /\ hist.ops < max
  /\ HostFrame
  /\ state' = createDefaultState
  /\ IF cachedGameName
       THEN ResetBody(createDefaultState, Orphan(pending),
                      Counted(hist))
       ELSE /\ pending' = Append(Orphan(pending),
                 PendingRec("reset", NoWindow, "", NoHint, TRUE, NullEnvelope, NoSaveData))
            /\ hist' = Counted(HistStep("resetPend", NoWindow, NoSaveData))
            /\ hLast' = Last("resetStart", NoWindow, "", <<>>)
            /\ UNCHANGED <<clientWindows, windowToClientId, handledReadyClients,
                           cachedGameName, storedState, storedAssignments,
                           storedBroadcast, replyTimers, muteTimers, nextEnvelopeId,
                           nextClientId, epoch, gameInfoSent>>

(* ---- continuations of suspended handlers ---- *)

\* The constructor's readPersistedState().then(state => this.state = state)
LoadBody(rest) ==
  /\ state' = readPersistedState(storedState)
  /\ pending' = Orphan(rest)
  /\ cachedGameName' = TRUE
  /\ hist' = HistStep("internal", NoWindow, NoSaveData)
  /\ hLast' = Last("load", NoWindow, "", <<>>)
  /\ UNCHANGED <<clientWindows, windowToClientId, handledReadyClients, storedState,
                 storedAssignments, storedBroadcast, replyTimers, muteTimers,
                 nextEnvelopeId, nextClientId, epoch, gameInfoSent>>

\* The package.json fetch of suspended handler i answers: the handler runs to
\* its end, since every later getGameName() returns the cached name.
Resume(i) ==
  LET p == pending[i]
      rest == RemoveAt(pending, i)
      obj == IF p.live THEN state ELSE p.snap
  IN /\ HostFrame
     /\ CASE p.kind = "load" -> LoadBody(rest)
          [] p.kind = "ready" -> ReadyBody(p, rest, hist) /\ UNCHANGED handledReadyClients
          [] p.kind = "save" ->
               SaveBody(obj, p.env, p.data, <<>>, rest, hist)
                 /\ UNCHANGED <<state, nextEnvelopeId>>
          [] p.kind = "gameOver" -> GameOverBody(obj, rest, hist) /\ UNCHANGED state
          [] OTHER -> ResetBody(obj, rest, hist) /\ UNCHANGED state

(* ---- registration and the demonstration mute cycle ---- *)

\* A __remix_dev_host_request__ arrives from window w (lines 1014-1024); the
\* client sends its own client id (initializeSDKMock, lines 953-963)
Register(w, explicit, max) ==
  LET reg == registerClientWindow(w, explicit, clientWindows, windowToClientId)
  IN /\ hist.ops < max
     /\ HostFrame
     /\ clientWindows' = reg.clientWindows
     /\ windowToClientId' = reg.windowToClientId
     /\ muteTimers' = muteTimers \o RegistrationTimers(reg)
     /\ nextClientId' = IF reg.minted THEN nextClientId + 1 ELSE nextClientId
     /\ hist' = Counted(HistStep("internal", w, NoSaveData))
     /\ hLast' = Last("register", w, reg.id,
                      RegistrationEvents(reg) \o <<WindowMsg("__remix_dev_host_ready__", "")>>)
     /\ UNCHANGED <<state, handledReadyClients, cachedGameName, storedState,
                    storedAssignments, storedBroadcast, pending, replyTimers,
                    nextEnvelopeId, epoch, gameInfoSent>>

\* A timer of the mute cycle fires (lines 588-596)
MuteTimer(i) ==
  LET isMuted == muteTimers[i] = "mute"
  IN /\ HostFrame
     /\ muteTimers' = RemoveAt(muteTimers, i) \o (IF isMuted THEN <<"unmute">> ELSE <<>>)
     /\ hist' = HistStep("internal", NoWindow, NoSaveData)
     /\ hLast' = Last("muteTimer", NoWindow, "",
                      sendGameEvent("toggle_mute", isMuted, clientWindows)
                        \o <<DevEvent("toggle_mute", isMuted)>>)
     /\ UNCHANGED <<state, clientWindows, windowToClientId, handledReadyClients,
                    cachedGameName, storedState, storedAssignments, storedBroadcast,
                    pending, replyTimers, nextEnvelopeId, nextClientId, epoch,
                    gameInfoSent>>

\* Window w is reloaded: its __remixDevClientId property is gone, and
\* getClientInstanceId mints a new one (lines 206-220)
Reload(w, max) ==
  /\ hist.ops < max
  /\ UNCHANGED <<isMultiplayer, winHints, throwingWindows, facadeVars, fnVars,
                 storeVars>>
  /\ winClientId' = [winClientId EXCEPT ![w] = MintedIds[nextClientId]]
  /\ nextClientId' = nextClientId + 1
  /\ hist' = Counted(HistStep("reload", w, NoSaveData))
  /\ hLast' = Last("reload", w, MintedIds[nextClientId], <<>>)
  /\ UNCHANGED <<state, clientWindows, windowToClientId, handledReadyClients,
                 cachedGameName, storedState, storedAssignments, storedBroadcast,
                 pending, replyTimers, muteTimers, nextEnvelopeId, epoch, gameInfoSent>>

(* ---- handleStorageBroadcast ---- *)

\* Storage events delivered to the Host: a change of the broadcast key by
\* another document (removal, a text that is not JSON, an envelope of another
\* Host, an envelope bearing this Host's id), or a change of another key.
StorageEvents ==
  [key : {"__remix_dev_host_broadcast__", "another key"},
   newValue : {NoItem, Item([notJSON |-> TRUE])}
                \cup {Item([senderId |-> sender, type |-> "multiplayer_game_over",
                            data |-> GameOverData]) : sender \in {"host", "other host"}}
                \cup {Item([senderId |-> "other host", type |-> "game_state_updated",
                            data |-> NullEnvelope])}]

\* An echo handler that lets its own envelopes through, for comparison
handleStorageBroadcastEcho(ev, cw) ==
  IF ev.key /= "__remix_dev_host_broadcast__" \/ ~ev.newValue.present THEN <<>>
  ELSE IF "senderId" \notin DOMAIN ev.newValue.value THEN <<>>
  ELSE sendGameEvent(ev.newValue.value.type, ev.newValue.value.data, cw)

\* handleStorageBroadcast(event): the messages it posts
handleStorageBroadcast(ev, cw) ==
  IF ev.key /= "__remix_dev_host_broadcast__" \/ ~ev.newValue.present THEN <<>>
  ELSE IF "senderId" \notin DOMAIN ev.newValue.value THEN <<>>   \* JSON.parse throws
  ELSE IF ev.newValue.value.senderId = "host" THEN <<>>
  ELSE sendGameEvent(ev.newValue.value.type, ev.newValue.value.data, cw)

\* Another document has changed a storage key and the storage event arrives
StorageEvent(ev) ==
  /\ HostFrame
  /\ storedBroadcast' = IF ev.key = "__remix_dev_host_broadcast__"
                          THEN ev.newValue ELSE storedBroadcast
  /\ hist' = HistStep("storage", NoWindow, NoSaveData)
  /\ hLast' = [Last("storage", NoWindow, "", handleStorageBroadcast(ev, clientWindows))
                 EXCEPT !.info = ev]
  /\ UNCHANGED <<state, clientWindows, windowToClientId, handledReadyClients,
                 cachedGameName, storedState, storedAssignments, pending,
                 replyTimers, muteTimers, nextEnvelopeId, nextClientId, epoch,
                 gameInfoSent>>

(* ---- the machines ---- *)

\* The Host with every input of its environment.
InitHostSpec == InitHost /\ InitFacade /\ NoPureCall /\ throwingWindows = {}

NextHost ==
  \/ \E src \in Windows \cup {NoWindow} : Ready(src, MaxOps)
  \/ ReplyTimer
  \/ \E in \in SaveInputs : Save(in[1], in[2], MaxOps)
  \/ GameOver(MaxOps)
  \/ Reset(MaxOps)
  \/ \E i \in 1..Len(pending) : Resume(i)
  \/ \E w \in {"wA", "wB"} : Register(w, winClientId[w], MaxOps)
  \/ \E i \in 1..Len(muteTimers) : MuteTimer(i)
  \/ \E w \in {"wA"} : Reload(w, MaxOps)

SpecHost == InitHostSpec /\ [][NextHost]_vars

\* The Host followed one operation further, with plain inputs: client windows
\* without hints, empty storage, one save payload, no host requests or reloads.
InitHostDeep ==
  /\ InitHost
  /\ InitFacade
  /\ NoPureCall
  /\ throwingWindows = {}
  /\ winHints = [w \in Windows \cup {HostWindow} |-> NoHint]
  /\ hist.emptyAtInit

NextHostDeep ==
  \/ \E src \in Windows : Ready(src, MaxDeepOps)
  \/ ReplyTimer
  \/ Save("multiplayer_save_game_state", SaveCp2, MaxDeepOps)
  \/ GameOver(MaxDeepOps)
  \/ Reset(MaxDeepOps)
  \/ \E i \in 1..Len(pending) : Resume(i)
  \/ \E i \in 1..Len(muteTimers) : MuteTimer(i)

SpecHostDeep == InitHostDeep /\ [][NextHostDeep]_vars

\* Timers fire and fetches are answered: a scheduled reply and a suspended
\* handler are not left waiting for ever.
SpecHostLive ==
  /\ InitHostDeep
  /\ [][NextHostDeep]_vars
  /\ WF_vars(ReplyTimer)
  /\ WF_vars(\E i \in 1..Len(pending) : Resume(i))

\* The Host beside other Hosts that write the broadcast key
NextBridge ==
  \/ \E src \in Windows : Ready(src, MaxOps)
  \/ ReplyTimer
  \/ Save("multiplayer_save_game_state", SaveCp2, MaxOps)
  \/ GameOver(MaxOps)
  \/ \E i \in 1..Len(pending) : Resume(i)
  \/ \E i \in 1..Len(muteTimers) : MuteTimer(i)
  \/ \E ev \in StorageEvents : StorageEvent(ev)

SpecBridge == InitHostDeep /\ [][NextBridge]_vars

\* The Host with client windows whose postMessage throws
InitFanOut ==
  /\ InitHost
  /\ InitFacade
  /\ NoPureCall
  /\ throwingWindows \in {{}, {"wA"}, {"wB"}}
  /\ winHints = [w \in Windows \cup {HostWindow} |-> NoHint]
  /\ hist.emptyAtInit

NextFanOut ==
  \/ \E src \in {"wA", "wB"} : Ready(src, MaxDeepOps)
  \/ ReplyTimer
  \/ Save("multiplayer_save_game_state", SaveCp2, MaxDeepOps)
  \/ GameOver(MaxDeepOps)
  \/ \E i \in 1..Len(pending) : Resume(i)
  \/ \E i \in 1..Len(muteTimers) : MuteTimer(i)

SpecFanOut == InitFanOut /\ [][NextFanOut]_vars

\* The Host in a browser whose storage is unavailable: safeLocalStorage()
\* answers every getItem with null and every setItem / removeItem with false.
InitHostNoStorage ==
  /\ InitHost
  /\ InitFacade
  /\ throwingWindows = {}
  /\ fnArg = NoCall /\ fnRes = <<>>
  /\ isAvailable = "false"
  /\ lsPresent = FALSE
  /\ lsItems = [k \in StoreKeys |-> "null"]
  /\ lsAccess = {}
  /\ hist.emptyAtInit

SpecHostNoStorage == InitHostNoStorage /\ [][NextHost]_vars

(* ---- the game state panel (GameStatePanel.tsx) ---- *)

\* The object autoSave / handleLoadState store under the StoredState key.
\* parsed is the normalized editor content (an envelope-shaped object),
\* cpid the currentPlayerId the caller computed. A payload without a
\* players field (<<>>) gets the two default players.
PanelStateToSave(parsed, cpid) ==
  [gameState |-> parsed,
   players |-> IF parsed.gameState.players /= <<>>
                 THEN parsed.gameState.players ELSE DEFAULT_PLAYERS,
   currentPlayerId |-> cpid]

\* autoSave(text), 500 ms after the last edit. valid = FALSE: JSON.parse
\* throws and only the parse error is shown. Otherwise the state is written
\* to storage and both iframes are reloaded.
PanelAutoSave(valid, gs, max) ==
  /\ hist.ops < max
  /\ UNCHANGED <<isMultiplayer, winHints, throwingWindows, facadeVars, fnVars,
                 storeVars>>
  /\ storedState' = IF valid
                      THEN StorageSet(PanelStateToSave(
                             [id |-> 0, gameState |-> gs, alertUserIds |-> None], NullId))
                      ELSE storedState
  /\ winClientId' = IF valid
                      THEN [winClientId EXCEPT !["wA"] = MintedIds[nextClientId],
                                               !["wB"] = MintedIds[nextClientId + 1]]
                      ELSE winClientId
  /\ nextClientId' = IF valid THEN nextClientId + 2 ELSE nextClientId
  /\ hist' = Counted(HistStep("panelAutoSave", NoWindow, NoSaveData))
  /\ hLast' = Last("panelAutoSave", NoWindow, "", <<>>)
  /\ UNCHANGED <<state, clientWindows, windowToClientId, handledReadyClients,
                 cachedGameName, storedAssignments, storedBroadcast, pending,
                 replyTimers, muteTimers, nextEnvelopeId, epoch, gameInfoSent>>

\* handleLoadState(savedState): the saved state is written to storage with
\* currentPlayerId = stateBody.currentPlayer || null (a number, written "#n"
\* to keep it apart from the id strings). The iframe reloads follow from a
\* 100 ms timer, as Reload steps.
PanelLoadState(gs, max) ==
  /\ hist.ops < max
  /\ HostFrame
  /\ storedState' =
       StorageSet(PanelStateToSave(
         [id |-> 0, gameState |-> gs, alertUserIds |-> None],
         CASE gs.currentPlayer = Some(1) -> "#1"
           [] gs.currentPlayer = Some(2) -> "#2"
           [] OTHER -> NullId))
  /\ hist' = Counted(HistStep("panelLoadState", NoWindow, NoSaveData))
  /\ hLast' = Last("panelLoadState", NoWindow, "", <<>>)
  /\ UNCHANGED <<state, clientWindows, windowToClientId, handledReadyClients,
                 cachedGameName, storedAssignments, storedBroadcast, pending,
                 replyTimers, muteTimers, nextEnvelopeId, nextClientId, epoch,
                 gameInfoSent>>

\* handleClear(), confirmed: the key is removed, then host.resetState() runs
\* up to its fetch (or to its end when the game name is cached).
PanelClear(max) ==
  /\ hist.ops < max
  /\ HostFrame
  /\ state' = createDefaultState
  /\ IF cachedGameName
       THEN ResetBody(createDefaultState, Orphan(pending), Counted(hist))
       ELSE /\ storedState' = NoItem
            /\ pending' = Append(Orphan(pending),
                 PendingRec("reset", NoWindow, "", NoHint, TRUE, NullEnvelope, NoSaveData))
            /\ hist' = Counted(HistStep("resetPend", NoWindow, NoSaveData))
            /\ hLast' = Last("panelClear", NoWindow, "", <<>>)
            /\ UNCHANGED <<clientWindows, windowToClientId, handledReadyClients,
                           cachedGameName, storedAssignments, storedBroadcast,
                           replyTimers, muteTimers, nextEnvelopeId, nextClientId,
                           epoch, gameInfoSent>>

\* The Host with the panel open beside the game.
NextPanel ==
  \/ \E src \in Windows : Ready(src, MaxOps)
  \/ ReplyTimer
  \/ Save("multiplayer_save_game_state", SaveCp2, MaxOps)
  \/ \E w \in Windows : Reload(w, MaxOps)
  \/ \E i \in 1..Len(pending) : Resume(i)
  \/ \E i \in 1..Len(muteTimers) : MuteTimer(i)
  \/ \E valid \in BOOLEAN : PanelAutoSave(valid, PayloadCp1, MaxOps)
  \/ \E gs \in {PayloadCp1, GamePayload(None, Some("w"), <<>>)} :
       PanelLoadState(gs, MaxOps)
  \/ PanelClear(MaxOps)

SpecPanel == InitHostDeep /\ [][NextPanel]_vars

\* The client registry alone: host requests with every kind of client id
\* (none, blank, padded, plain), resets, and the timers of the mute cycle.
NextRegistry ==
  \/ \E w \in Windows, explicit \in {"", " ", " cA ", "cA", "cB"} :
       Register(w, explicit, MaxDeepOps)
  \/ Reset(MaxDeepOps)
  \/ \E i \in 1..Len(pending) : Resume(i)
  \/ \E i \in 1..Len(muteTimers) : MuteTimer(i)

SpecRegistry == InitHostDeep /\ [][NextRegistry]_vars

(* ---- the Host's own messages come back to its listener ---- *)

\* Lines 603-606 without the __fromRemixDevHost test, for comparison
handleIncomingMessageUnmarked(m) ==
  (IF m.ch = "client" THEN "game_event"
   ELSE IF m.ch = "dev" THEN "remix_sdk_event" ELSE m.type) = "game_event"

\* Lines 603-606: does handleIncomingMessage go on to its switch for message
\* m? What the Host posts is an object; sendGameEvent's payloads carry
\* __fromRemixDevHost and type 'game_event', publishDevEvent's have type
\* 'remix_sdk_event', the others their own type.
handleIncomingMessageAccepts(m) ==
  /\ m.ch /= "client"
  /\ (IF m.ch = "dev" THEN "remix_sdk_event" ELSE m.type) = "game_event"

\* Message i of the last step was posted in the Host's window and reaches
\* handleIncomingMessage. An accepted multiplayer_game_over runs its handler,
\* any other accepted event type falls to the default case (line 654).
HostOwnMessage(i) ==
  LET m == hLast.out[i]
      st1 == [state EXCEPT !.gameState = NullEnvelope, !.currentPlayerId = NullId]
  IN /\ m.to = HostWindow
     /\ m.ch \in {"client", "dev", "window"}
     /\ HostFrame
     /\ IF handleIncomingMessageAccepts(m) /\ m.type = "multiplayer_game_over"
          THEN /\ state' = st1
               /\ IF cachedGameName
                    THEN GameOverBody(st1, pending, hist)
                    ELSE /\ pending' = Append(pending,
                              PendingRec("gameOver", NoWindow, "", NoHint, TRUE,
                                         NullEnvelope, NoSaveData))
                         /\ hLast' = Last("gameOverStart", NoWindow, "", <<>>)
                         /\ UNCHANGED <<clientWindows, windowToClientId,
                                        handledReadyClients, cachedGameName,
                                        storedState, storedAssignments, storedBroadcast,
                                        replyTimers, muteTimers, nextEnvelopeId,
                                        nextClientId, epoch, gameInfoSent, hist>>
          ELSE /\ hLast' = [Last("ownMessage", NoWindow, "",
                                 IF handleIncomingMessageAccepts(m)
                                   THEN <<DevEvent("unhandled_game_event", m.type)>>
                                   ELSE <<>>)
                              EXCEPT !.info = m]
               /\ UNCHANGED <<state, clientWindows, windowToClientId,
                              handledReadyClients, cachedGameName, storedState,
                              storedAssignments, storedBroadcast, pending, replyTimers,
                              muteTimers, nextEnvelopeId, nextClientId, epoch,
                              gameInfoSent, hist>>

NextOwn ==
  \/ \E src \in Windows \cup {NoWindow} : Ready(src, MaxOps)
  \/ ReplyTimer
  \/ Save("multiplayer_save_game_state", SaveCp2, MaxOps)
  \/ GameOver(MaxOps)
  \/ Reset(MaxOps)
  \/ \E i \in 1..Len(pending) : Resume(i)
  \/ \E i \in 1..Len(muteTimers) : MuteTimer(i)
  \/ \E i \in 1..Len(hLast.out) : HostOwnMessage(i)

\* Timers fire, fetches answer and posted messages are delivered.
SpecOwn ==
  /\ InitHostDeep
  /\ [][NextOwn]_vars
  /\ WF_vars(ReplyTimer)
  /\ WF_vars(\E i \in 1..Len(pending) : Resume(i))
  /\ WF_vars(\E i \in 1..Len(muteTimers) : MuteTimer(i))
  /\ WF_vars(\E i \in 1..Len(hLast.out) : HostOwnMessage(i))

\* The Facade alone: the Host's variables keep one initial value.
InitFacadeSpec ==
  /\ InitFacade
  /\ InitHost
  /\ NoPureCall
  /\ throwingWindows = {}
  /\ isMultiplayer
  /\ winHints = [w \in Windows \cup {HostWindow} |-> NoHint]
  /\ hist.emptyAtInit

SpecFacade == InitFacadeSpec /\ [][NextFacade]_vars

\* The microtask queue is drained before the browser runs anything else.
SpecFacadeLive == InitFacadeSpec /\ [][NextFacade]_vars /\ WF_vars(FacadeMicrotask)

\* ===========================================================================
\*                     readInstanceHints (index.tsx 222-282)
\* ===========================================================================

\* A global or a field that is not a string (typeof ... !== 'string')
NotAString == "<not a string>"

\* What readInstanceHints can find around a window. Globals are NotAString or a
\* string; dataset entries, the id matched in window.name and the URL
\* parameters are "" when missing.
HintContexts ==
  [instPlayerId : {NotAString, "g1", " "},     \* __remixDevInstance.playerId
   instPlayerName : {NotAString, "Gina"},      \* __remixDevInstance.playerName
   devPlayerId : {NotAString, "g2"},           \* __remixDevPlayerId
   devPlayerName : {NotAString, "Gus"},        \* __remixDevPlayerName
   hasFrame : BOOLEAN,                         \* frameElement with a dataset
   dataId : {"", "f3"},                        \* remixPlayerId || remixPlayer || playerId || player
   dataName : {"", "Fay"},                     \* remixPlayerName || playerName
   nameId : {"", "n4"},                        \* match[1] of /player(?:Id)?=(\w+)/i on ctx.name
   urlPlayer : {"", "u5"},                     \* params.get('player') || params.get('instance')
   urlName : {"", "Uma"}]                      \* params.get('playerName')

\* lines 227-240: the globals, __remixDevPlayerId over __remixDevInstance
HintsFromGlobals(ctx) ==
  LET id1 == IF ctx.instPlayerId /= NotAString THEN Trim(ctx.instPlayerId) ELSE ""
      nm1 == IF ctx.instPlayerName /= NotAString THEN Trim(ctx.instPlayerName) ELSE ""
  IN Hint(IF ctx.devPlayerId /= NotAString THEN Trim(ctx.devPlayerId) ELSE id1,
          IF ctx.devPlayerName /= NotAString THEN Trim(ctx.devPlayerName) ELSE nm1)

\* lines 242-258: the iframe element's data-* attributes fill what is missing
HintsFromFrame(ctx, h) ==
  IF ~ctx.hasFrame THEN h
  ELSE Hint(IF ctx.dataId /= "" /\ h.playerId = "" THEN Trim(ctx.dataId) ELSE h.playerId,
            IF ctx.dataName /= "" /\ h.playerName = "" THEN Trim(ctx.dataName)
            ELSE h.playerName)

\* lines 260-265: window.name fills a missing playerId
HintsFromName(ctx, h) ==
  Hint(IF ctx.nameId /= "" /\ h.playerId = "" THEN ctx.nameId ELSE h.playerId,
       h.playerName)

\* lines 267-279: the URL parameters are taken whenever they are present
HintsFromUrl(ctx, h) ==
  Hint(IF ctx.urlPlayer /= "" THEN Trim(ctx.urlPlayer) ELSE h.playerId,
       IF ctx.urlName /= "" THEN Trim(ctx.urlName) ELSE h.playerName)

\* readInstanceHints(ctx), without the clientId ("" = the field is not set)
readInstanceHints(ctx) ==
  HintsFromUrl(ctx, HintsFromName(ctx, HintsFromFrame(ctx, HintsFromGlobals(ctx))))

InitHints ==
  /\ InitHost /\ isMultiplayer /\ hist.emptyAtInit
  /\ winHints = [w \in Windows \cup {HostWindow} |-> NoHint]
  /\ InitFacade
  /\ throwingWindows = {}
  /\ fnArg \in HintContexts
  /\ fnRes = <<>>
  /\ StoreUnused

\* readInstanceHints is called on the window
ReadHints ==
  /\ fnRes = <<>>
  /\ fnRes' = <<readInstanceHints(fnArg)>>
  /\ UNCHANGED <<fnArg, hostVars, facadeVars, storeVars>>

SpecHints == InitHints /\ [][ReadHints]_vars

(* ---- ensureDevHost ---- *)

\* A bootstrap that constructs a controller on every call, for comparison
ensureDevHostAfresh(existing, flag, made) ==
  [host |-> [id |-> made + 1, isMultiplayer |-> flag], isNew |-> TRUE]

\* ensureDevHost(isMultiplayer): existing is window.__remixDevHost (<<>> when
\* unset), made the number of controllers constructed so far
ensureDevHost(existing, flag, made) ==
  IF existing /= <<>>
    THEN [host |-> existing[1], isNew |-> FALSE]
    ELSE [host |-> [id |-> made + 1, isMultiplayer |-> flag], isNew |-> TRUE]

\* The top window before any bootstrap: fnRes is window.__remixDevHost,
\* fnArg the calls of ensureDevHost made so far.
InitEnsure ==
  /\ InitHost /\ isMultiplayer /\ hist.emptyAtInit
  /\ winHints = [w \in Windows \cup {HostWindow} |-> NoHint]
  /\ InitFacade
  /\ throwingWindows = {}
  /\ fnArg = [kind |-> "ensureDevHost", calls |-> <<>>]
  /\ fnRes = <<>>
  /\ StoreUnused

\* One caller runs ensureDevHost: the dashboard bootstrap and the command
\* listener with true, the host-request listener with
\* payload.multiplayer !== false, initializeSDKMock with the flag of
\* package.json.
EnsureDevHost ==
  \E call \in {<<"dashboard", TRUE>>, <<"command", TRUE>>,
               <<"request", TRUE>>, <<"request", FALSE>>,
               <<"initializeSDKMock", TRUE>>, <<"initializeSDKMock", FALSE>>} :
    LET made == Cardinality({i \in 1..Len(fnArg.calls) : fnArg.calls[i].isNew})
        r == ensureDevHost(fnRes, call[2], made)
    IN /\ Len(fnArg.calls) < MaxEnsureCalls
       /\ fnRes' = <<r.host>>
       /\ fnArg' = [fnArg EXCEPT !.calls =
                      Append(@, [caller |-> call[1], flag |-> call[2],
                                 returned |-> r.host, isNew |-> r.isNew])]
       /\ UNCHANGED <<hostVars, facadeVars, storeVars>>

SpecEnsure == InitEnsure /\ [][EnsureDevHost]_vars

\* ===========================================================================
\*                normalizeGameState (GameStatePanel.tsx 17-41)
\* ===========================================================================

\* Property values: undefined, null, an empty object, two other values
JsNull == "null"

\* A JavaScript value as normalizeGameState sees it: its kind and, for an
\* object, its own properties (a key can be present with the value undefined).
JsValue(kind, props) == [kind |-> kind, props |-> props]


PrimitiveKinds == {"undefined", "null", "number", "string", "boolean"}

CodecInputs ==
  {JsValue(k, [p \in {} |-> Undefined]) : k \in PrimitiveKinds \cup {"array"}}
    \cup {JsValue("object", f) :
            f \in UNION {[S -> {Undefined, JsNull, "{}", "X", "Y"}] :
                           S \in SUBSET {"gameState", "data", "label"}}}

\* A destructuring that drops nothing, for comparison
KeepProps(props) == props

\* const { data, ...rest } = raw: the own properties without data
RestWithoutData(props) == [k \in (DOMAIN props) \ {"data"} |-> props[k]]

\* A spread that leaves gameState out, for comparison
SpreadOnly(rest, v) == rest

\* { ...rest, gameState: v }
WithGameState(rest, v) ==
  [k \in (DOMAIN rest) \cup {"gameState"} |-> IF k = "gameState" THEN v ELSE rest[k]]

\* normalizeGameState(raw)
normalizeGameState(raw) ==
  IF raw.kind \in PrimitiveKinds
    THEN raw
  ELSE IF "gameState" \in DOMAIN raw.props
    THEN LET rest == RestWithoutData(raw.props)
             deprecatedData == IF "data" \in DOMAIN raw.props
                                 THEN raw.props["data"] ELSE Undefined
         \* line 24: the legacy data is used only for an undefined gameState
         IN IF rest["gameState"] = Undefined /\ deprecatedData /= Undefined
              THEN JsValue("object", WithGameState(rest, deprecatedData))
              ELSE JsValue("object", rest)
  ELSE IF "data" \in DOMAIN raw.props
    THEN JsValue("object", WithGameState(RestWithoutData(raw.props), raw.props["data"]))
  ELSE raw

InitCodec ==
  /\ InitHost /\ isMultiplayer /\ hist.emptyAtInit
  /\ winHints = [w \in Windows \cup {HostWindow} |-> NoHint]
  /\ InitFacade
  /\ throwingWindows = {}
  /\ fnArg \in CodecInputs
  /\ fnRes = <<>>
  /\ StoreUnused

\* normalizeGameState is applied to the input, then to its own output
Normalize ==
  /\ Len(fnRes) < MaxApply
  /\ fnRes' = Append(fnRes, normalizeGameState(IF fnRes = <<>> THEN fnArg
                                               ELSE fnRes[Len(fnRes)]))
  /\ UNCHANGED <<fnArg, hostVars, facadeVars, storeVars>>

SpecCodec == InitCodec /\ [][Normalize]_vars

\* ===========================================================================
\*                SafeLocalStorage (safeLocalStorage.ts 6-192)
\* ===========================================================================

\* Stored texts: empty, not JSON, the JSON of an object, String(undefined)
TextEmpty == ""
TextBad == "{bad"
TextObj == "{\"a\":1}"
TextUndefined == "undefined"

\* Values handed to setJSON and defaults handed to getJSON
ValueObj == "value {a: 1}"
ValueCircular == "value with a cycle"

\* The outcome of evaluating an expression: a value returned or an exception
Returns(v) == [threw |-> FALSE, value |-> v]
Throws == [threw |-> TRUE, value |-> Undefined]

\* A try block that lets the exception of its body escape, for comparison
Uncaught(body, handler) == body

\* try { body } catch (error) { handler }
Catch(body, handler) == IF body.threw THEN handler ELSE body

\* JSON.stringify(value): throws on a cycle, is undefined for undefined
JSONstringify(value) ==
  IF value = ValueCircular THEN Throws
  ELSE IF value = Undefined THEN Returns(Undefined)
  ELSE Returns(TextObj)

\* String(value) as window.localStorage.setItem applies it to its argument
ToStoredText(value) == IF value = Undefined THEN TextUndefined ELSE value

\* checkAvailability() without the cache of lines 13-15, for comparison
checkAvailabilityAfresh(cached, probeThrows) ==
  IF ~lsPresent \/ probeThrows THEN "false" ELSE "true"

\* checkAvailability(): the cached answer, else false without a storage or
\* when the probe (setItem and removeItem of a test key) throws, else true
checkAvailability(cached, probeThrows) ==
  IF cached /= "null" THEN cached
  ELSE Catch(IF ~lsPresent THEN Returns("false")
             ELSE IF probeThrows THEN Throws
             ELSE Returns("true"),
             Returns("false")).value

\* What a call does with window.localStorage: the probe of checkAvailability
\* when nothing is cached, and the operation when the answer is true
StorageAccess(cached, avail, operation) ==
  (IF cached = "null" THEN {"probe"} ELSE {})
    \cup (IF avail = "true" THEN {operation} ELSE {})

\* getItem(key) once checkAvailability() has answered avail
getItem(avail, key, opThrows) ==
  IF avail /= "true" THEN Returns(JsNull)
  ELSE Catch(IF opThrows THEN Throws ELSE Returns(lsItems[key]), Returns(JsNull))

\* setItem(key, value)
setItem(avail, key, value, opThrows) ==
  IF avail /= "true" THEN Returns("false")
  ELSE Catch(IF opThrows THEN Throws ELSE Returns("true"), Returns("false"))

\* removeItem(key)
removeItem(avail, key, opThrows) ==
  IF avail /= "true" THEN Returns("false")
  ELSE Catch(IF opThrows THEN Throws ELSE Returns("true"), Returns("false"))

\* getJSON(key, defaultValue)
getJSON(avail, key, defaultValue, opThrows) ==
  LET got == getItem(avail, key, opThrows)
  IN IF got.threw THEN got
     ELSE IF got.value \in {JsNull, TextEmpty} THEN Returns(defaultValue)
     \* JSON.parse(value) inside try / catch
     ELSE Catch(IF got.value = TextObj THEN Returns(ValueObj) ELSE Throws,
                Returns(defaultValue))

\* setJSON(key, value)
setJSON(avail, key, value, opThrows) ==
  LET text == JSONstringify(value)
  IN Catch(IF text.threw THEN Throws
           ELSE setItem(avail, key, ToStoredText(text.value), opThrows),
           Returns("false"))

\* what setJSON hands to window.localStorage.setItem, <<>> when it does not
setJSONStores(avail, value, opThrows) ==
  IF avail = "true" /\ ~opThrows /\ ~JSONstringify(value).threw
    THEN <<ToStoredText(JSONstringify(value).value)>> ELSE <<>>

StoreCall(kind, key, value, probeThrows, opThrows) ==
  [kind |-> kind, key |-> key, value |-> value,
   probeThrows |-> probeThrows, opThrows |-> opThrows, before |-> lsItems[key]]

InitStore ==
  /\ InitHost /\ isMultiplayer /\ hist.emptyAtInit
  /\ winHints = [w \in Windows \cup {HostWindow} |-> NoHint]
  /\ InitFacade
  /\ throwingWindows = {}
  /\ fnArg = NoCall
  /\ fnRes = <<>>
  /\ isAvailable = "null"
  /\ lsPresent \in BOOLEAN
  /\ lsItems \in [StoreKeys -> {JsNull, TextBad, TextObj}]
  /\ lsAccess = {}

StoreFrame == UNCHANGED <<lsPresent, hostVars, facadeVars>>

GetItem(key, probeThrows, opThrows) ==
  LET avail == checkAvailability(isAvailable, probeThrows)
  IN /\ isAvailable' = avail
     /\ fnArg' = StoreCall("getItem", key, Undefined, probeThrows, opThrows)
     /\ fnRes' = <<getItem(avail, key, opThrows)>>
     /\ UNCHANGED lsItems
     /\ lsAccess' = StorageAccess(isAvailable, avail, "getItem")
     /\ StoreFrame

SetItem(key, value, probeThrows, opThrows) ==
  LET avail == checkAvailability(isAvailable, probeThrows)
  IN /\ isAvailable' = avail
     /\ fnArg' = StoreCall("setItem", key, value, probeThrows, opThrows)
     /\ fnRes' = <<setItem(avail, key, value, opThrows)>>
     /\ lsItems' = IF avail = "true" /\ ~opThrows
                     THEN [lsItems EXCEPT ![key] = value] ELSE lsItems
     /\ lsAccess' = StorageAccess(isAvailable, avail, "setItem")
     /\ StoreFrame

RemoveItem(key, probeThrows, opThrows) ==
  LET avail == checkAvailability(isAvailable, probeThrows)
  IN /\ isAvailable' = avail
     /\ fnArg' = StoreCall("removeItem", key, Undefined, probeThrows, opThrows)
     /\ fnRes' = <<removeItem(avail, key, opThrows)>>
     /\ lsItems' = IF avail = "true" /\ ~opThrows
                     THEN [lsItems EXCEPT ![key] = JsNull] ELSE lsItems
     /\ lsAccess' = StorageAccess(isAvailable, avail, "removeItem")
     /\ StoreFrame

GetJSON(key, defaultValue, probeThrows, opThrows) ==
  LET avail == checkAvailability(isAvailable, probeThrows)
  IN /\ isAvailable' = avail
     /\ fnArg' = StoreCall("getJSON", key, defaultValue, probeThrows, opThrows)
     /\ fnRes' = <<getJSON(avail, key, defaultValue, opThrows)>>
     /\ UNCHANGED lsItems
     /\ lsAccess' = StorageAccess(isAvailable, avail, "getItem")
     /\ StoreFrame

SetJSON(key, value, probeThrows, opThrows) ==
  LET avail == IF JSONstringify(value).threw THEN isAvailable
               ELSE checkAvailability(isAvailable, probeThrows)
      stores == setJSONStores(avail, value, opThrows)
  IN /\ isAvailable' = avail
     /\ fnArg' = StoreCall("setJSON", key, value, probeThrows, opThrows)
     /\ fnRes' = <<setJSON(avail, key, value, opThrows)>>
     /\ lsItems' = IF stores /= <<>>
                     THEN [lsItems EXCEPT ![key] = stores[1]] ELSE lsItems
     /\ lsAccess' = IF JSONstringify(value).threw THEN {}
                   ELSE StorageAccess(isAvailable, avail, "setItem")
     /\ StoreFrame

NextStore ==
  \/ \E k \in StoreKeys, p \in BOOLEAN, o \in BOOLEAN : GetItem(k, p, o)
  \/ \E k \in StoreKeys, v \in {TextEmpty, TextBad, TextObj, TextUndefined}, p \in BOOLEAN, o \in BOOLEAN : SetItem(k, v, p, o)
  \/ \E k \in StoreKeys, p \in BOOLEAN, o \in BOOLEAN : RemoveItem(k, p, o)
  \/ \E k \in StoreKeys, d \in {JsNull, "default"}, p \in BOOLEAN, o \in BOOLEAN : GetJSON(k, d, p, o)
  \/ \E k \in StoreKeys, v \in {ValueObj, ValueCircular, Undefined}, p \in BOOLEAN, o \in BOOLEAN : SetJSON(k, v, p, o)

SpecStore == InitStore /\ [][NextStore]_vars

-----------------------------------------------------------------------------
(* Properties of the Facade (SpecFacade) *)

\* C1: on one Facade instance every ready() call returns the same promise
\* object (the one the first call created), and at most one 'ready'
\* game_event is posted to the target window: none before the first call,
\* exactly one from the first call on.
C1_ReadyIsIdempotent ==
  /\ fLast.op = "ready" => fLast.returned = 1
  /\ Len(promises) <= 1
  /\ readyPosted <= 1
  /\ readyCalls > 0 => readyPosted = 1
  /\ readyCalls = 0 => readyPosted = 0

\* ready() has been called again after the promise was resolved
C1_Witness ==
  /\ fLast.op = "ready"
  /\ readyCalls >= 2
  /\ readyPromise /= 0
  /\ promises[readyPromise] /= "pending"

\* C2: a ready promise is resolved at most once (a resolved promise keeps its
\* value), and it goes from pending to resolved only in a step that delivers
\* an inbound message carrying the host marker and a game_info event.
C2_Step ==
  \A p \in DOMAIN promises :
    /\ promises[p] /= "pending" => promises'[p] = promises[p]
    /\ (promises[p] = "pending" /\ promises'[p] /= "pending") =>
         /\ fLast'.op = "message"
         /\ fLast'.msg.marked
         /\ fLast'.msg.evType = "game_info"

C2_ResolvedOnlyByHostGameInfo == [][C2_Step]_vars

\* C3: no callback registered through on() is ever invoked with a game_info
\* event, whether the message arrives before ready(), while the promise is
\* pending or after it has resolved.
C3_NoListenerGetsGameInfo ==
  \A x \in fLast.invoked : x[2] /= "game_info"

-----------------------------------------------------------------------------
(* Properties of the Host's handshake (SpecHost, SpecHostDeep) *)

\* A 'ready' message has just arrived from a client that was in the
\* handled-ready set when it arrived.
DuplicateReadyArrived ==
  /\ hist'.ops > hist.ops
  /\ hLast'.op \in {"ready", "readyStart", "readyDup"}
  /\ hLast'.cid \in handledReadyClients

\* C4: a ready from a clientId that is already in the handled-ready set
\* schedules no game_info reply, emits nothing, and leaves the in-memory state
\* (the player list), the assignment table, the persisted StoredState and the
\* client registry unchanged.
C4_Step ==
  DuplicateReadyArrived =>
    /\ hLast'.out = <<>>
    /\ UNCHANGED <<state, storedState, storedAssignments, clientWindows,
                   windowToClientId, replyTimers, gameInfoSent, pending>>

C4_DuplicateReadyChangesNothing == [][C4_Step]_vars

\* a duplicate ready arrived after the first one had been processed and persisted
C4_Witness ==
  /\ hLast.op = "readyDup"
  /\ hLast.cid \in handledReadyClients
  /\ hist.assigned /= <<>>
  /\ hist.assigned[1][1] = hLast.cid
  /\ storedState.present

\* C5 as stated: over the whole life of the Host at most one game_info reply
\* is sent per clientId.
C5_OneReplyPerClientEver ==
  \A k1, k2 \in DOMAIN gameInfoSent :
    /\ gameInfoSent[k1] <= 1
    /\ k1[2] = k2[2] => k1 = k2

\* C5, amended: at most one game_info reply is sent per clientId and per
\* period between two resets (a reset empties the handled-ready set), also
\* when several readys of the client are in flight together.
C5_OneReplyPerClientPerReset ==
  \A k \in DOMAIN gameInfoSent : gameInfoSent[k] <= 1

\* the same client has been answered before and after a reset
C5_Witness ==
  /\ epoch = 1
  /\ <<0, "cA">> \in DOMAIN gameInfoSent
  /\ <<1, "cA">> \in DOMAIN gameInfoSent

\* C6: on a multiplayer Host that started with empty storage, with clients
\* that give no hints and nothing but handshakes going on, the handshakes are
\* assigned, in the order they are processed, the player ids "1", "2", "1";
\* the clients are distinct.
C6_DisjointThenReused ==
  (isMultiplayer /\ hist.emptyAtInit /\ hist.onlyReadys
     /\ \A w \in Windows : winHints[w] = NoHint) =>
    /\ \A i, j \in 1..Len(hist.assigned) :
         i /= j => hist.assigned[i][1] /= hist.assigned[j][1]
    /\ Len(hist.assigned) >= 1 => hist.assigned[1][2] = "1"
    /\ Len(hist.assigned) >= 2 => hist.assigned[2][2] = "2"
    /\ Len(hist.assigned) >= 3 => hist.assigned[3][2] = "1"

\* three distinct clients have been assigned and the table holds "2" for the
\* second and "1" for the third
C6_Witness ==
  /\ isMultiplayer /\ hist.emptyAtInit /\ hist.onlyReadys
  /\ Len(hist.assigned) = 3
  /\ readPlayerAssignments(storedAssignments)[hist.assigned[3][1]] = "1"
  /\ readPlayerAssignments(storedAssignments)[hist.assigned[2][1]] = "2"

\* A game_info event posted to a client window in the last step
GameInfoPosted ==
  \E i \in 1..Len(hLast.out) :
    hLast.out[i].ch = "client" /\ hLast.out[i].type = "game_info"
      /\ hLast.out[i].data = hLast.info

\* C7: on a single-player Host, a handshake that finds the storage empty
\* builds, and is answered with, a GameInfo whose players list has length 1
\* and whose only entry has id "1", whatever the client's hints are.
C7_SinglePlayerFirstHandshake ==
  (~isMultiplayer /\ hLast.op \in {"ready", "replyTimer"} /\ hLast.readEmpty) =>
    /\ Len(hLast.info.players) = 1
    /\ hLast.info.players[1].id = "1"

\* the reply to a client that hinted player id "3" has been posted
C7_Witness ==
  /\ ~isMultiplayer
  /\ hLast.op = "replyTimer"
  /\ hLast.readEmpty
  /\ GameInfoPosted
  /\ hLast.cid = "cB"
  /\ winHints["wB"].playerId = "3"

\* C8 as stated: the persisted players list never has more than 2 entries, and
\* on a single-player Host it has exactly 1 entry once a handshake has been
\* processed.
C8_RosterBounded ==
  storedState.present =>
    /\ Len(storedState.value.players) <= 2
    /\ (~isMultiplayer /\ hist.assigned /= <<>>) => Len(storedState.value.players) = 1

\* The precedence of C9, as the claim words it
C9_Precedence(hint, cid, assignments, players) ==
  IF hint.playerId /= "" THEN hint.playerId
  ELSE IF cid \in DOMAIN assignments THEN assignments[cid]
  ELSE IF ~isMultiplayer THEN "1"
  ELSE IF \E i \in 1..Len(players) : \A c \in DOMAIN assignments : assignments[c] /= players[i].id
    THEN players[CHOOSE i \in 1..Len(players) :
                   /\ \A c \in DOMAIN assignments : assignments[c] /= players[i].id
                   /\ \A j \in 1..(i - 1) :
                        \E c \in DOMAIN assignments : assignments[c] = players[j].id].id
  ELSE IF Len(players) < 2 THEN NumStr(Len(players) + 1)
  ELSE "1"

C9_ResolvedByPrecedence ==
  hLast'.op = "ready" =>
    hLast'.resolved =
      C9_Precedence(winHints[ContextWindow(hLast'.src)], hLast'.cid,
                    readPlayerAssignments(storedAssignments),
                    readPersistedState(storedState).players)

\* C9 as stated: handleReady resolves the player id by the precedence hint,
\* stored assignment, "1" on a single-player Host, first unassigned roster
\* player, synthesized player, "1"; and the GameInfo it builds names the
\* player resolved this way.
C9_Step ==
  /\ C9_ResolvedByPrecedence
  /\ hLast'.op = "ready" => hLast'.info.player.id = hLast'.resolved

C9_GameInfoNamesResolvedPlayer == [][C9_Step]_vars

\* C10: on a multiplayer Host that started with empty storage, following the
\* scenario A handshakes, A is answered, A saves currentPlayer 2, B
\* handshakes, B is answered: A's answer names player "1" with a null
\* initialGameState; after the save the persisted currentPlayerId is "2" and a
\* game_state_updated event went out with the envelope just generated; B's
\* answer names player "2" with an initialGameState whose gameState has
\* currentPlayer 2.
C10_EndToEnd ==
  (isMultiplayer /\ hist.emptyAtInit) =>
    /\ (hist.scen = "A_replied" /\ hLast.op = "replyTimer") =>
         /\ GameInfoPosted
         /\ hLast.info.player.id = "1"
         /\ hLast.info.initialGameState = NullEnvelope
    /\ (hist.scen = "S_done" /\ hLast.op = "save") =>
         /\ storedState.present
         /\ storedState.value.currentPlayerId = "2"
         /\ \E i \in 1..Len(hLast.out) :
              /\ hLast.out[i].ch = "client"
              /\ hLast.out[i].type = "game_state_updated"
              /\ hLast.out[i].data /= NullEnvelope
              /\ hLast.out[i].data.id \in 1..(nextEnvelopeId - 1)
              /\ hLast.out[i].data.gameState = SaveCp2.gameState
              /\ storedState.value.gameState = hLast.out[i].data
    /\ (hist.scen = "B_replied" /\ hLast.op = "replyTimer") =>
         /\ GameInfoPosted
         /\ hLast.info.player.id = "2"
         /\ hLast.info.initialGameState /= NullEnvelope
         /\ hLast.info.initialGameState.gameState.currentPlayer = Some(2)

\* B has been answered at the end of the scenario
C10_Witness ==
  /\ isMultiplayer /\ hist.emptyAtInit
  /\ hist.scen = "B_replied"
  /\ hLast.op = "replyTimer"
  /\ hLast.cid = "cB"
  /\ GameInfoPosted

-----------------------------------------------------------------------------
(* Properties of saves, game-overs and resets (SpecHost) *)

\* Message m was emitted in the last step
OutHas(m) == \E i \in 1..Len(hLast.out) : hLast.out[i] = m

\* The envelopes carried by the game_state_updated dev events of the last step
UpdatedEnvelopes ==
  {hLast.out[i].data : i \in {j \in 1..Len(hLast.out) :
      hLast.out[j].ch = "dev" /\ hLast.out[j].type = "game_state_updated"}}

\* C11: when a save request has been handled, the StoredState is persisted
\* and game_state_updated has gone out with the stored envelope over three
\* channels: to every registered client window, as a dev event in the Host
\* window, and as a write of the broadcast storage key.
C11_SavePersistsThenFansOut ==
  hLast.op = "save" =>
    \E env \in UpdatedEnvelopes :
      /\ storedState.present
      /\ storedState.value.gameState = env
      /\ \A cid \in DOMAIN clientWindows :
           OutHas(ClientMsg(clientWindows[cid], "game_state_updated", env))
      /\ OutHas(BridgeMsg("game_state_updated", env))
      /\ storedBroadcast = broadcastToOtherWindows("game_state_updated", env)

\* C12: a processed save that carries a gameState stores an envelope whose
\* id differs from the id of the envelope stored before it.
C12_Step ==
  (/\ hLast'.op = "save"
   /\ \E i \in 1..Len(hLast'.out) :
        /\ hLast'.out[i].ch = "dev"
        /\ hLast'.out[i].type = "game_state_updated"
        /\ hLast'.out[i].data /= NullEnvelope
   /\ storedState.present
   /\ storedState.value.gameState /= NullEnvelope) =>
    /\ storedState'.value.gameState /= NullEnvelope
    /\ storedState'.value.gameState.id /= storedState.value.gameState.id

C12_StoredEnvelopeIdIsNew == [][C12_Step]_vars

\* C13: when a multiplayer_game_over event has been handled, the persisted
\* StoredState has a null gameState and a null currentPlayerId, the
\* assignment table is empty, and the event has gone out to every registered
\* client window.
C13_GameOverClears ==
  hLast.op = "gameOver" =>
    /\ storedState.present
    /\ storedState.value.gameState = NullEnvelope
    /\ storedState.value.currentPlayerId = NullId
    /\ storedAssignments = NoItem
    /\ \A cid \in DOMAIN clientWindows :
         OutHas(ClientMsg(clientWindows[cid], "multiplayer_game_over", GameOverData))

\* C14: when resetState has completed, the persisted StoredState is the
\* default state, the assignment table is empty, and the client registry and
\* the handled-ready set are empty (so that a later ready of any client is
\* processed again).
C14_ResetWipes ==
  hLast.op = "reset" =>
    /\ storedState = persistState(createDefaultState)
    /\ storedAssignments = NoItem
    /\ clientWindows = EmptyMap
    /\ windowToClientId = EmptyMap
    /\ handledReadyClients = {}

\* C15: when a save that carries a numeric currentPlayer field or a string
\* turn field has been handled, the persisted currentPlayerId is "1" or "2".
C15_TurnIsPlayerOneOrTwo ==
  (/\ hLast.op = "save"
   /\ \E env \in UpdatedEnvelopes :
        /\ env /= NullEnvelope
        /\ env.gameState.currentPlayer /= None \/ env.gameState.turn /= None) =>
    /\ storedState.present
    /\ storedState.value.currentPlayerId \in {"1", "2"}

-----------------------------------------------------------------------------
(* Properties of readInstanceHints (SpecHints) *)

\* The non-blank strings a list of sources provides, "" for a missing one
Provided(S) == {Trim(x) : x \in S} \ {"", NotAString}

\* C16: readInstanceHints takes playerId and playerName from the
\* highest-precedence source that provides one: the in-window globals, then
\* the iframe element's data-* attributes, then (playerId only) the pattern
\* in window.name, then the URL query parameters; a lower source never
\* overrides a higher one.
C16_HintPrecedence ==
  fnRes /= <<>> =>
    LET ctx == fnArg
        globalIds == Provided({ctx.instPlayerId, ctx.devPlayerId})
        globalNames == Provided({ctx.instPlayerName, ctx.devPlayerName})
        frameId == IF ctx.hasFrame THEN ctx.dataId ELSE ""
        frameName == IF ctx.hasFrame THEN ctx.dataName ELSE ""
    IN /\ IF globalIds /= {} THEN fnRes[1].playerId \in globalIds
          ELSE IF frameId /= "" THEN fnRes[1].playerId = frameId
          ELSE IF ctx.nameId /= "" THEN fnRes[1].playerId = ctx.nameId
          ELSE fnRes[1].playerId = ctx.urlPlayer
       /\ IF globalNames /= {} THEN fnRes[1].playerName \in globalNames
          ELSE IF frameName /= "" THEN fnRes[1].playerName = frameName
          ELSE fnRes[1].playerName = ctx.urlName

-----------------------------------------------------------------------------
(* Properties of normalizeGameState (SpecCodec) *)

HasKey(v, k) == k \in DOMAIN v.props

\* C17: normalizeGameState is idempotent (its second application returns a
\* value equal to the first); an object with a data key and no gameState key
\* comes back with data's value under gameState and without data; an object
\* with a gameState key and no data key comes back equal to the input.
C17_Idempotent ==
  /\ Len(fnRes) >= 2 => fnRes[2] = fnRes[1]
  /\ (fnRes /= <<>> /\ HasKey(fnArg, "data") /\ ~HasKey(fnArg, "gameState")) =>
       /\ fnRes[1].kind = "object"
       /\ DOMAIN fnRes[1].props = ((DOMAIN fnArg.props) \ {"data"}) \cup {"gameState"}
       /\ fnRes[1].props["gameState"] = fnArg.props["data"]
       /\ \A k \in (DOMAIN fnArg.props) \ {"data"} : fnRes[1].props[k] = fnArg.props[k]
  /\ (fnRes /= <<>> /\ HasKey(fnArg, "gameState") /\ ~HasKey(fnArg, "data")) =>
       fnRes[1] = fnArg

\* applied twice to an input whose gameState is undefined beside a legacy data
C17_Witness ==
  /\ Len(fnRes) = 2
  /\ HasKey(fnArg, "data") /\ HasKey(fnArg, "gameState")
  /\ fnArg.props["gameState"] = Undefined
  /\ fnArg.props["data"] = "X"
  /\ fnRes[2].props["gameState"] = "X"

\* C18 as stated: every object input (with gameState, with data, or flat)
\* comes back as an object with a gameState key and no data key, and every
\* non-object input comes back unchanged.
C18_AlwaysExposesGameState ==
  fnRes /= <<>> =>
    /\ fnArg.kind = "object" =>
         HasKey(fnRes[1], "gameState") /\ ~HasKey(fnRes[1], "data")
    /\ fnArg.kind \in PrimitiveKinds => fnRes[1] = fnArg

\* C18, amended: an object input with a gameState key or a data key comes
\* back as an object with a gameState key and no data key; an object with
\* neither key (and an array) comes back unchanged, without a gameState key;
\* every non-object input comes back unchanged.
C18_ExposesGameStateUnlessFlat ==
  fnRes /= <<>> =>
    /\ (fnArg.kind = "object" /\ (HasKey(fnArg, "gameState") \/ HasKey(fnArg, "data"))) =>
         /\ fnRes[1].kind = "object"
         /\ HasKey(fnRes[1], "gameState") /\ ~HasKey(fnRes[1], "data")
    /\ (fnArg.kind \in {"object", "array"} /\ ~HasKey(fnArg, "gameState")
          /\ ~HasKey(fnArg, "data")) =>
         fnRes[1] = fnArg /\ ~HasKey(fnRes[1], "gameState")
    /\ fnArg.kind \in PrimitiveKinds => fnRes[1] = fnArg

\* a flat object has come back without a gameState key
C18_Witness ==
  /\ fnRes /= <<>>
  /\ fnArg.kind = "object"
  /\ DOMAIN fnArg.props = {"label"}
  /\ fnRes[1] = fnArg

\* C19: for an input with both a data key and a gameState key the result has
\* no data key, and its gameState is the input's gameState when that is not
\* empty, and the input's data when the input's gameState is undefined, null
\* or an empty object.
C19_PrefersNonEmptyGameState ==
  (fnRes /= <<>> /\ HasKey(fnArg, "data") /\ HasKey(fnArg, "gameState")) =>
    /\ ~HasKey(fnRes[1], "data")
    /\ HasKey(fnRes[1], "gameState")
    /\ fnRes[1].props["gameState"] =
         IF fnArg.props["gameState"] \in {Undefined, JsNull, "{}"}
           THEN fnArg.props["data"] ELSE fnArg.props["gameState"]

-----------------------------------------------------------------------------
(* Properties of SafeLocalStorage (SpecStore) *)

\* the storage was absent, or threw on the probe or on the operation
StorageFailed == isAvailable = "false" \/ fnArg.opThrows

\* C20: getItem, setItem and removeItem never throw, and return null, false
\* and false when the storage is absent or throws on the availability probe
\* or on the operation; getJSON returns the caller's default when the stored
\* text is missing or is not valid JSON.
C20_DegradesGracefully ==
  fnRes /= <<>> =>
    /\ fnArg.kind \in {"getItem", "setItem", "removeItem"} => ~fnRes[1].threw
    /\ (fnArg.kind = "getItem" /\ StorageFailed) => fnRes[1] = Returns(JsNull)
    /\ (fnArg.kind \in {"setItem", "removeItem"} /\ StorageFailed) =>
         fnRes[1] = Returns("false")
    /\ (fnArg.kind = "getJSON" /\ fnArg.before \in {JsNull, TextEmpty, TextBad, TextUndefined}) =>
         fnRes[1] = Returns(fnArg.value)

\* a setItem on a storage that had passed the probe threw (quota exceeded)
\* and false came back; the text a setJSON of undefined left is still stored
C20_Witness ==
  /\ fnRes /= <<>>
  /\ fnArg.kind = "setItem"
  /\ fnArg.opThrows
  /\ isAvailable = "true"
  /\ fnRes[1] = Returns("false")
  /\ lsItems["remix-key"] = TextUndefined

\* a call that found the availability cached false
ShortCircuited ==
  /\ isAvailable = "false"
  /\ isAvailable' = "false"
  /\ lsAccess' = {}
  /\ lsItems' = lsItems
  /\ fnRes' = <<IF fnArg'.kind = "getItem" THEN Returns(JsNull)
                ELSE IF fnArg'.kind = "getJSON" THEN Returns(fnArg'.value)
                ELSE Returns("false")>>

C21_StepAfterFirst ==
  /\ fnRes /= <<>> => isAvailable' = isAvailable
  /\ "probe" \in lsAccess' => fnRes = <<>>
  /\ isAvailable = "false" => ShortCircuited

\* C21 as stated: after the first operation the cached availability never
\* changes and no later call probes; once the probe has failed every later
\* call returns its fallback without touching the storage.
C21_ProbedByFirstOperation == [][C21_StepAfterFirst]_vars

C21_Step ==
  /\ isAvailable /= "null" => isAvailable' = isAvailable
  /\ "probe" \in lsAccess' => isAvailable = "null"
  /\ isAvailable = "false" => ShortCircuited

\* C21, amended: the storage is probed at most once: only a call that finds
\* nothing cached probes, and once an answer is cached it never changes (the
\* first call caches one unless it is a setJSON whose JSON.stringify throws);
\* once the probe has failed every later getItem, setItem, removeItem,
\* getJSON and setJSON returns its fallback (null, false or the default)
\* without touching the storage, even when the storage would work by then.
C21_ProbedAtMostOnce == [][C21_Step]_vars

\* after a failed probe, a getItem that the storage would have served (it is
\* present, holds a text and throws nothing) returned null without an access
C21_Witness ==
  /\ isAvailable = "false"
  /\ lsPresent
  /\ fnArg.kind = "getItem"
  /\ ~fnArg.probeThrows /\ ~fnArg.opThrows
  /\ lsItems["remix-key"] = TextObj
  /\ lsAccess = {}
  /\ fnRes = <<Returns(JsNull)>>

-----------------------------------------------------------------------------
(* Properties of the Host without storage (SpecHostNoStorage) *)

\* a GameInfo built from the default state: no saved game state, and only
\* the default players apart from the entry of the resolved player
FromDefaultState(info) ==
  /\ info.initialGameState = NullEnvelope
  /\ \A i \in 1..Len(info.players) :
       \/ \E j \in 1..Len(DEFAULT_PLAYERS) : info.players[i] = DEFAULT_PLAYERS[j]
       \/ info.players[i].id = hLast.resolved
       \/ info.players[i].id = info.player.id

-----------------------------------------------------------------------------
(* Properties of the broadcast bridge (SpecBridge) *)

\* the storage event of the last step carried an envelope of sender
EnvelopeFrom(sender) ==
  /\ hLast.op = "storage"
  /\ hLast.info.key = "__remix_dev_host_broadcast__"
  /\ hLast.info.newValue.present
  /\ "senderId" \in DOMAIN hLast.info.newValue.value
  /\ hLast.info.newValue.value.senderId = sender

C23_Step ==
  hLast'.op = "storage" =>
    /\ \A i \in 1..Len(hLast'.out) : hLast'.out[i].ch = "client"
    /\ storedBroadcast' \in {storedBroadcast, hLast'.info.newValue}
    /\ UNCHANGED <<storedState, storedAssignments, clientWindows>>

\* C23: a storage event carrying an envelope of another Host is re-emitted,
\* with its type and data, to every registered client window; an envelope
\* bearing the Host's own id (and an event without an envelope) causes no
\* message; handling a storage event posts client messages only and writes
\* no storage key, so the broadcast key keeps the value the event announced.
C23_ReemitsForeignEnvelopesOnly ==
  /\ [][C23_Step]_vars
  /\ [](EnvelopeFrom("other host") =>
          \A cid \in DOMAIN clientWindows :
            OutHas(ClientMsg(clientWindows[cid], hLast.info.newValue.value.type,
                             hLast.info.newValue.value.data)))
  /\ []((hLast.op = "storage" /\ ~EnvelopeFrom("other host")) => hLast.out = <<>>)
  /\ []((hLast.op = "storage" /\ hLast.out /= <<>>) => EnvelopeFrom("other host"))

\* another Host's game-over envelope is re-emitted to two registered windows
C23_Witness ==
  /\ EnvelopeFrom("other host")
  /\ Cardinality(DOMAIN clientWindows) = 2
  /\ Len(hLast.out) = 2
  /\ hLast.out[1].type = "multiplayer_game_over"

-----------------------------------------------------------------------------
(* Notification of 'ready' listeners (SpecFacadeLive) *)

C24_Step ==
  /\ (fLast'.op = "on" /\ fLast'.eventType = "ready" /\ hasHostReady) =>
       /\ microtasks' = Append(microtasks, fLast'.cb)
       /\ fLast'.invoked = {}
  /\ (fLast'.op = "on" /\ ~(fLast'.eventType = "ready" /\ hasHostReady)) =>
       /\ microtasks' = microtasks
       /\ fLast'.invoked = {}
  /\ fLast'.op = "replay" =>
       /\ microtasks /= <<>>
       /\ microtasks' = Tail(microtasks)
       /\ fLast'.invoked = {<<Head(microtasks), "ready", Undefined>>}
  /\ (fLast'.op = "message" /\ HandleMessageAccepts(fLast'.msg)
        /\ fLast'.msg.evType = "ready") =>
       /\ hasHostReady'
       /\ fLast'.invoked = {<<cb, "ready", fLast'.msg.data>> : cb \in eventListeners["ready"]}
  /\ fLast'.op \notin {"on", "replay"} => microtasks' = microtasks

\* C24: a callback registered with on('ready', cb) before the ready signal
\* is invoked when the signal arrives; one registered after it is not invoked
\* by on() itself but gets one replay queued, and every queued replay runs,
\* invoking its callback exactly once.
C24_ReadyListenersAreNotified ==
  /\ [][C24_Step]_vars
  /\ \A cb \in Callbacks :
       (microtasks /= <<>> /\ Head(microtasks) = cb)
         ~> (fLast.op = "replay" /\ fLast.cb = cb)

\* the replay of a late registration has run and nothing is left queued
C24_Witness ==
  /\ fLast.op = "replay"
  /\ fLast.invoked = {<<"cb1", "ready", Undefined>>}
  /\ hasHostReady
  /\ "cb1" \in eventListeners["ready"]
  /\ microtasks = <<>>

-----------------------------------------------------------------------------
(* Fan-out to windows whose postMessage throws (SpecFanOut) *)

\* the event of the last step that went to the clients without a target
FannedOut ==
  CASE hLast.op = "save" -> {"game_state_updated"}
    [] hLast.op = "gameOver" -> {"multiplayer_game_over"}
    [] hLast.op = "muteTimer" -> {"toggle_mute"}
    [] OTHER -> {}

\* C25: when an event is fanned out, every registered window whose
\* postMessage does not throw is posted the event, whatever windows throw,
\* and no exception leaves the handler (its dev event is still published).
C25_FanOutSurvivesThrowingWindow ==
  \A type \in FannedOut :
    /\ \A cid \in DOMAIN clientWindows :
         clientWindows[cid] \notin throwingWindows =>
           \E i \in 1..Len(hLast.out) :
             /\ hLast.out[i].ch = "client"
             /\ hLast.out[i].to = clientWindows[cid]
             /\ hLast.out[i].type = type
    /\ \A i \in 1..Len(hLast.out) : hLast.out[i] /= Thrown
    /\ \E i \in 1..Len(hLast.out) : hLast.out[i].ch = "dev" /\ hLast.out[i].type = type

\* a save is fanned out to two registered windows, one of which throws
C25_Witness ==
  /\ hLast.op = "save"
  /\ Cardinality(DOMAIN clientWindows) = 2
  /\ \E cid \in DOMAIN clientWindows : clientWindows[cid] \in throwingWindows
  /\ \E i \in 1..Len(hLast.out) : hLast.out[i].ch = "client"

-----------------------------------------------------------------------------
(* The delayed reply (SpecHostLive) *)

\* the reply of client cid's handshake has been posted to a client window
ReplyPosted(cid) ==
  /\ hLast.op = "replyTimer"
  /\ hLast.cid = cid
  /\ \E i \in 1..Len(hLast.out) :
       /\ hLast.out[i].ch = "client"
       /\ hLast.out[i].type = "game_info"
       /\ hLast.out[i].data = hLast.info

\* C26: every processed ready of a client is eventually followed by a
\* game_info message posted to that client's window, whatever the Host does
\* between the processing and the delayed reply.
C26_ProcessedReadyIsAnswered ==
  \A cid \in {"cA", "cB", "cC"} :
    (hLast.op = "ready" /\ hLast.cid = cid) ~> ReplyPosted(cid)

-----------------------------------------------------------------------------
(* Concurrent saves and the initial load (SpecHost) *)

\* the two operations so far were saves carrying a game state (each takes
\* two envelope ids), and the second of them to persist has just finished
BothSavesDone ==
  /\ hist.ops = 2
  /\ nextEnvelopeId = 5
  /\ hLast.op = "save"
  /\ \A i \in 1..Len(pending) : pending[i].kind /= "save"

\* C27: after two saves have both been processed, the persisted gameState
\* is the envelope of the save whose persist step ran last, which is the
\* envelope carried by the last game_state_updated emitted.
C27_LastPersistWins ==
  BothSavesDone =>
    /\ storedState.present
    /\ UpdatedEnvelopes = {storedState.value.gameState}

\* the handshake of the last step is waiting for its fetch
ReadyTakenUp ==
  \E i \in 1..Len(pending) : pending[i].kind = "ready" /\ pending[i].cid = hLast.cid

C28_Step ==
  /\ hLast'.op = "readyStart" => ReadyTakenUp'
  /\ hLast'.op = "ready" =>
       /\ replyTimers' /= <<>>
       /\ replyTimers'[Len(replyTimers')].info = hLast'.info
       /\ hLast'.info.initialGameState =
            (IF storedState.present THEN storedState.value.gameState ELSE NullEnvelope)
       /\ storedAssignments'.present
       /\ storedAssignments'.value[hLast'.cid] = hLast'.resolved
       /\ \A c \in DOMAIN readPlayerAssignments(storedAssignments) \ {hLast'.cid} :
            storedAssignments'.value[c] = storedAssignments.value[c]
       /\ storedState'.present
       /\ storedState'.value.players = hLast'.info.players
       /\ \E i \in 1..Len(hLast'.info.players) : hLast'.info.players[i] = hLast'.info.player

\* C28: a ready that arrives while the constructor's load is pending is
\* taken up (it waits for its own fetch), and when it is processed its reply
\* is scheduled with a GameInfo whose game state is the one in storage at
\* that moment and whose players are the ones it persists with its own
\* assignment, wherever the completion of the load falls.
C28_ReadyDuringLoadRereads == [][C28_Step]_vars

\* a ready was processed from a stored state while the load was still pending
C28_Witness ==
  /\ hLast.op = "ready"
  /\ \E i \in 1..Len(pending) : pending[i].kind = "load"
  /\ ~hist.emptyAtInit
  /\ state.gameState /= NullEnvelope
  /\ hLast.info.initialGameState = state.gameState

(* ---- C29 ---- *)

\* the steps of the Host's own handlers and of their continuations
HostWrote ==
  hLast'.op \notin {"panelAutoSave", "panelLoadState", "panelClear"}

\* C29: the Host is the only writer of the StoredState storage key: the
\* stored value changes only in steps of the Host's handlers, never in a
\* step of the panel (auto-save of the editor, load of a saved state, clear).
C29_HostIsSoleWriter == [][storedState' /= storedState => HostWrote]_vars

(* ---- C30 ---- *)

\* the messages of the last step that carry an envelope of a save
SaveEnvelopesOut ==
  { hLast.out[i].data : i \in { j \in 1..Len(hLast.out) :
      /\ hLast.out[j].type \in {"game_state_updated",
                                "single_player_game_state_broadcast",
                                "multiplayer_game_state_broadcast"}
      /\ hLast.out[j].data /= NullEnvelope } }

C30_Step ==
  /\ hLast'.op = "save" =>
       \A e \in SaveEnvelopesOut' :
         /\ storedState'.present
         /\ storedState'.value.gameState /= NullEnvelope
         /\ e.id = storedState'.value.gameState.id
  /\ hLast'.op = "saveStart" =>
       \A e \in SaveEnvelopesOut' : e.id = pending'[Len(pending')].env.id

\* C30: every envelope the Host emits for one save (game_state_updated to
\* the clients, the game_state_updated dev event, the storage broadcast and
\* the single_player_ / multiplayer_game_state_broadcast message in the Host
\* window) carries the id of the envelope persisted for that save; for a
\* save that waits for its fetch, the id of the envelope it will persist.
C30_OneIdPerSave == [][C30_Step]_vars

(* ---- C31 ---- *)

\* the playerId fields of the game_info_assigned dev events of the last step
AssignedEvents ==
  { hLast.out[i].data.playerId :
      i \in { j \in 1..Len(hLast.out) : hLast.out[j].type = "game_info_assigned" } }

C31_Step ==
  hLast'.op = "ready" =>
    /\ storedAssignments'.present
    /\ storedAssignments'.value[hLast'.cid] = hLast'.resolved
    /\ AssignedEvents' = {hLast'.resolved}
    /\ hLast'.info.player.id = hLast'.resolved
    /\ \E i \in 1..Len(hLast'.info.players) : hLast'.info.players[i] = hLast'.info.player

\* C31: for every processed handshake the player id written to the
\* assignment table for the client, the playerId of the game_info_assigned
\* dev event and the id of GameInfo.player are equal, and GameInfo.player is
\* one of GameInfo.players, on single-player and multiplayer Hosts, with and
\* without playerId hints.
C31_OnePlayerIdPerHandshake == [][C31_Step]_vars

(* ---- C32 ---- *)

\* C32: whenever no Host handler is in flight (none waits for its fetch,
\* the constructor's load included), the StoredState in memory equals the
\* persisted one; storage that was never written counts as the default state.
C32_MemoryEqualsStorageAtRest ==
  pending = <<>> =>
    IF storedState.present
      THEN storedState.value = StringifyState(state)
      ELSE state = createDefaultState

(* ---- C33 ---- *)

\* C33: persist / read round trip: a readPersistedState of what the Host
\* has persisted returns the persisted gameState, players list and
\* currentPlayerId, on single-player and multiplayer Hosts.
C33_PersistReadRoundTrip ==
  storedState.present =>
    LET s == readPersistedState(storedState)
    IN /\ s.gameState = storedState.value.gameState
       /\ s.players = storedState.value.players
       /\ s.currentPlayerId = storedState.value.currentPlayerId

(* ---- C34 ---- *)

C34_Step ==
  hLast'.op = "reset" =>
    \A cid \in DOMAIN clientWindows :
      \E i \in 1..Len(hLast'.out) :
        hLast'.out[i] = ClientMsg(clientWindows[cid], "game_state_updated", NullEnvelope)

\* C34: when resetState runs while client windows are registered, each of
\* those windows is sent the game_state_updated(null) event of the reset.
C34_ResetNotifiesRegisteredWindows == [][C34_Step]_vars

(* ---- C35 ---- *)

\* a message the Host posted in its own window is still to be delivered
OwnMessageWaits ==
  \E i \in 1..Len(hLast.out) :
    hLast.out[i].to = HostWindow /\ hLast.out[i].ch \in {"client", "dev", "window"}

C35_Step ==
  (\E i \in 1..Len(hLast.out) : HostOwnMessage(i)) =>
    /\ hLast'.out = <<>>
    /\ UNCHANGED <<state, clientWindows, windowToClientId, handledReadyClients,
                   storedState, storedAssignments, storedBroadcast, pending,
                   replyTimers, muteTimers, nextEnvelopeId, epoch>>

\* C35: a message the Host posted itself and that arrives in its own window
\* (marked __fromRemixDevHost, a remix_sdk_event dev event, a
\* *_game_state_broadcast) changes no state and causes no further message,
\* so that after finitely many client actions the system becomes quiescent:
\* no timer, no suspended handler and no undelivered own message is left.
C35_OwnMessagesAreInert ==
  /\ [][C35_Step]_vars
  /\ <>[](pending = <<>> /\ replyTimers = <<>> /\ muteTimers = <<>> /\ ~OwnMessageWaits)

\* the game-over event the Host posted to its own window (no client was
\* registered) has come back to its listener
C35_Witness ==
  /\ hLast.op = "ownMessage"
  /\ hLast.info = ClientMsg(HostWindow, "multiplayer_game_over", GameOverData)

(* ---- C36 ---- *)

C37_Step ==
  /\ \A w \in DOMAIN windowToClientId \cap DOMAIN windowToClientId' :
       windowToClientId'[w] = windowToClientId[w]
  /\ \A w \in Windows, explicit \in {"", " ", " cA ", "cA", "cB"} :
       Register(w, explicit, MaxDeepOps) =>
         IF w \in DOMAIN windowToClientId
           THEN /\ hLast'.cid = windowToClientId[w]
                /\ nextClientId' = nextClientId
                /\ DOMAIN clientWindows' = DOMAIN clientWindows
                /\ windowToClientId' = windowToClientId
           ELSE /\ hLast'.cid = (CASE explicit \in {"cA", " cA "} -> "cA"
                                   [] explicit = "cB" -> "cB"
                                   [] OTHER -> MintedIds[nextClientId])
                /\ nextClientId' = nextClientId + (IF explicit \in {"", " "} THEN 1 ELSE 0)
                /\ clientWindows'[hLast'.cid] = w
                /\ windowToClientId'[w] = hLast'.cid

\* C37: registerClientWindow is idempotent per window: a window that is
\* already known gets the client id it was given first, also when another
\* explicit id is passed, no id is minted and the registry does not grow; an
\* unknown window is registered under the trimmed explicit id when one is
\* given, else under a newly minted id.
C37_RegistrationIsIdempotent == [][C37_Step]_vars

\* window wA, known under a minted id, has been registered again: the call
\* returned that id and announced no new client
C37_Witness ==
  /\ hLast.op = "register"
  /\ hLast.src = "wA"
  /\ hLast.cid = "m1"
  /\ hLast.out = <<WindowMsg("__remix_dev_host_ready__", "")>>

(* ---- C38 ---- *)

\* In SpecRegistry the counted operations are registrations and calls of
\* resetState, and each reset is either still waiting for its fetch or has
\* raised epoch: what remains is the number of registrations made so far.
RegistrationsSoFar ==
  hist.ops - epoch - Cardinality({i \in 1..Len(pending) : pending[i].kind = "reset"})

TimersOf(kind, timers) == Cardinality({i \in 1..Len(timers) : timers[i] = kind})

C38_Step ==
  /\ TimersOf("mute", muteTimers') > TimersOf("mute", muteTimers) =>
       RegistrationsSoFar = 0
  /\ TimersOf("unmute", muteTimers') > TimersOf("unmute", muteTimers) =>
       /\ hLast'.op = "muteTimer"
       /\ \E i \in 1..Len(hLast'.out) : hLast'.out[i] = DevEvent("toggle_mute", TRUE)

\* C38: the demonstration mute cycle is scheduled only by the first-ever
\* client registration of a Host, hence at most once over its lifetime,
\* resets included; the timer that sends toggle_mute false is started only by
\* the one that has sent toggle_mute true.
C38_MuteCycleOnlyOnce == [][C38_Step]_vars

(* ---- C39 ---- *)

C39_Step ==
  (/\ fLast'.op = "message"
   /\ ~(fLast'.msg.isObject /\ fLast'.msg.type = "game_event")) =>
    /\ fLast'.invoked = {}
    /\ ~fLast'.resolved
    /\ UNCHANGED <<hasHostReady, promises, readyPromiseResolve, eventListeners,
                   microtasks, readyPromise, readySent>>

\* C39: the Facade ignores every inbound message that is not an object of
\* type game_event (remix_sdk_event dev events, *_game_state_broadcast
\* messages, host request / ack and command messages, primitives): no
\* listener is invoked, the ready promise is not resolved and the cached
\* host-ready flag does not change.
C39_OtherTrafficIsIgnored == [][C39_Step]_vars

\* a host command carrying a game_info event arrived while the ready promise
\* was pending and listeners were registered
C39_Witness ==
  /\ fLast.op = "message"
  /\ fLast.msg.type = "__remix_dev_host_command__"
  /\ fLast.msg.evType = "game_info"
  /\ readyPromiseResolve
  /\ eventListeners["game_info"] /= {}
  /\ ~hasHostReady


(* ---- C40 ---- *)

\* C40: after off(type, cb) has returned, cb is not invoked for that event
\* type until it is registered again with on: every callback a step invokes,
\* by emit or by a queued 'ready' replay, is in the listener set of its event
\* type at that moment.
C40_NoCallAfterOff ==
  \A call \in fLast.invoked : call[1] \in eventListeners[call[2]]

====
